---- MODULE Spec2Model ----
(***************************************************************************)
(* A model of the monokakido dictionary reader: the keystore (katakana     *)
(* folding, exact search over the prefix index, page-reference runs, the   *)
(* four orderings read by Keys::new), the segment-file set and its         *)
(* locator, the RSC item index and block cache, decompress, the NRSC       *)
(* index and item reads, Rsc::get_by_idx, IndexHeader::validate, the      *)
(* Media facade, and cmp_range.                                            *)
(*                                                                         *)
(* Each subsystem has its own variables and its own specification          *)
(* (SpecKana, SpecPages, SpecKeys, SpecKeyIndexes, SpecSeg, SpecRscIndex,  *)
(* SpecRscCache, SpecRscByIdx, SpecInflate, SpecNrscIndex, SpecNrscData,   *)
(* SpecValidate, SpecMedia, SpecCmpRange); a specification keeps the other *)
(* subsystems' variables at their idle values.                             *)
(***************************************************************************)
EXTENDS Integers, Sequences, FiniteSets, TLC

VARIABLES
    \* to_katakana
    kana_input, kana_output, kana_pc,
    \* PageIter
    pages, iter_res, count, span, yielded, last_next,
    \* the segment-file set: Rsc::files / Nrsc::files and file_offset
    dir_entries, files, files_res, files_kind, loc_offset, loc_res, loc_file, loc_local,
    \* RscIndex
    idx, map, id, get_res, get_rec,
    \* Keys: the words region, the prefix index, and search_exact's locals
    words, index_prefix, target_key, target, low, high, search_res, found, probed,
    \* decompress: the input stream, the output buffer, the result, the engine's rounds
    z_stream, z_out, z_res, z_n, z_rounds,
    \* Rsc: the blocks on disk, the segment set, the map, the block cache, the last call
    \* (rsc_read: it reached get_by_map; rsc_loaded: it went through load_contents)
    disk, rsc_files, rsc_map, contents_buf, current_offset, current_len, rsc_calls, rsc_read, rsc_req, rsc_hit, rsc_loaded, rsc_res, rsc_out,
    \* NrscIndex: the records, the id table, the keys it was written from, the last call
    nidx, ids, nrsc_keys, n_offset, n_id, n_op, n_res, n_out_id, n_out_rec,
    \* Nrsc: the segment set and the segments' bytes, the two buffers, the bytes returned
    nd_files, nd_segs, nd_stream, read_buf, decomp_buf, nd_read, nd_out,
    \* Keys::new: the index region of the file and the orderings read from it; the last access
    idx_file, file_end, index_len, index_suffix, index_d, new_res, ki_op, ki_which, ki_arg, ki_res, ki_word,
    \* Media: the facade (res, path), how often a backing resource was built, the last probe for index.nidx, the last call
    media_res, media_path, media_built, media_probe, media_loaded, media_op, media_init, media_ret, media_failed, media_calls,
    \* cmp_range: its arguments (num, range.start, range.end) and its result
    cr_num, cr_start, cr_end, cr_out,
    \* Rsc::get_by_idx: its argument, what reading the item's bytes gives, its result (the id and the map record whose bytes it returns)
    bi_idx, bi_fetch, bi_res, bi_id, bi_rec,
    \* IndexHeader::validate: the header's five words, file_end, the result
    hdr, hdr_end, hdr_res,
    \* build profile: are integer overflow checks compiled in (debug) or not (release)
    overflow_checks

kanaVars == <<kana_input, kana_output, kana_pc>>
pageVars == <<pages, iter_res, count, span, yielded, last_next>>
segVars == <<dir_entries, files, files_res, files_kind, loc_offset, loc_res, loc_file, loc_local>>
rscVars == <<idx, map, id, get_res, get_rec>>
keyVars == <<words, index_prefix, target_key, target, low, high, search_res, found, probed>>
inflateVars == <<z_stream, z_out, z_res, z_n, z_rounds>>
cacheVars == <<disk, rsc_files, rsc_map, contents_buf, current_offset, current_len, rsc_calls, rsc_read, rsc_req, rsc_hit, rsc_loaded, rsc_res, rsc_out>>
nrscVars == <<nidx, ids, nrsc_keys, n_offset, n_id, n_op, n_res, n_out_id, n_out_rec>>
nrscDataVars == <<nd_files, nd_segs, nd_stream, read_buf, decomp_buf, nd_read, nd_out>>
keyIdxVars == <<idx_file, file_end, index_len, index_suffix, index_d, new_res, ki_op, ki_which, ki_arg, ki_res, ki_word>>
mediaVars == <<media_res, media_path, media_built, media_probe, media_loaded, media_op, media_init, media_ret, media_failed, media_calls>>
cmpVars == <<cr_num, cr_start, cr_end, cr_out>>
byIdxVars == <<bi_idx, bi_fetch, bi_res, bi_id, bi_rec>>
hdrVars == <<hdr, hdr_end, hdr_res>>
vars == <<kanaVars, pageVars, segVars, rscVars, keyVars, inflateVars, cacheVars, nrscVars, nrscDataVars, keyIdxVars, mediaVars, cmpVars, byIdxVars, hdrVars, overflow_checks>>

\* What an action of one subsystem leaves alone.
notKana == <<pageVars, segVars, rscVars, keyVars, inflateVars, cacheVars, nrscVars, nrscDataVars, keyIdxVars, mediaVars, cmpVars, byIdxVars, hdrVars, overflow_checks>>
notPages == <<kanaVars, segVars, rscVars, keyVars, inflateVars, cacheVars, nrscVars, nrscDataVars, keyIdxVars, mediaVars, cmpVars, byIdxVars, hdrVars>>
notSeg == <<kanaVars, pageVars, rscVars, keyVars, inflateVars, cacheVars, nrscVars, nrscDataVars, keyIdxVars, mediaVars, cmpVars, byIdxVars, hdrVars, overflow_checks>>
notRsc == <<kanaVars, pageVars, segVars, keyVars, inflateVars, cacheVars, nrscVars, nrscDataVars, keyIdxVars, mediaVars, cmpVars, byIdxVars, hdrVars, overflow_checks>>
notKeys == <<kanaVars, pageVars, segVars, rscVars, inflateVars, cacheVars, nrscVars, nrscDataVars, keyIdxVars, mediaVars, cmpVars, byIdxVars, hdrVars>>
notInflate == <<kanaVars, pageVars, segVars, rscVars, keyVars, cacheVars, nrscVars, nrscDataVars, keyIdxVars, mediaVars, cmpVars, byIdxVars, hdrVars, overflow_checks>>
notNrsc == <<kanaVars, pageVars, segVars, rscVars, keyVars, inflateVars, cacheVars, nrscDataVars, keyIdxVars, mediaVars, cmpVars, byIdxVars, hdrVars, overflow_checks>>
notNrscData == <<kanaVars, pageVars, segVars, rscVars, keyVars, inflateVars, cacheVars, keyIdxVars, mediaVars, cmpVars, byIdxVars, hdrVars, overflow_checks>>
notKeyIdx == <<kanaVars, pageVars, segVars, rscVars, inflateVars, cacheVars, nrscVars, nrscDataVars, mediaVars, cmpVars, byIdxVars, hdrVars>>
notMedia == <<kanaVars, pageVars, segVars, rscVars, keyVars, inflateVars, cacheVars, nrscVars, nrscDataVars, keyIdxVars, cmpVars, byIdxVars, hdrVars, overflow_checks>>
notCmp == <<kanaVars, pageVars, segVars, rscVars, keyVars, inflateVars, cacheVars, nrscVars, nrscDataVars, keyIdxVars, mediaVars, byIdxVars, hdrVars, overflow_checks>>
notByIdx == <<kanaVars, pageVars, segVars, keyVars, inflateVars, cacheVars, nrscVars, nrscDataVars, keyIdxVars, mediaVars, cmpVars, hdrVars, overflow_checks>>
notHdr == <<kanaVars, pageVars, segVars, rscVars, keyVars, inflateVars, cacheVars, nrscVars, nrscDataVars, keyIdxVars, mediaVars, cmpVars, byIdxVars, overflow_checks>>
notCache == <<kanaVars, pageVars, segVars, rscVars, keyVars, inflateVars, nrscVars, nrscDataVars, keyIdxVars, mediaVars, cmpVars, byIdxVars, hdrVars, overflow_checks>>

----------------------------------------------------------------------------
(* Bounds of the model *)

MaxStrLen == 3
MaxRunBytes == 4
MaxCount == 2
MaxFiles == 3
MaxItemId == 3
MaxMapLen == 2
MaxKeys == 3
MaxQueryLen == 2
MaxHdrOffset == 3
MaxRangeEnd == 5
MaxMediaCalls == 3
MaxIds == 3
MaxCalls == 3
MaxInLen == 2
MaxDataLen == 3

----------------------------------------------------------------------------
(* Generic helpers *)

\* All sequences over S of length at most n.
SeqsUpTo(S, n) == UNION {[1..k -> S] : k \in 0..n}

\* The tail of s from (0-based) offset k on: the Rust slice &s[k..].
From(s, k) == SubSeq(s, k + 1, Len(s))

\* n zero bytes.
Zeros(n) == [i \in 1..n |-> 0]

----------------------------------------------------------------------------
(* key.rs: to_katakana.  Strings are sequences of Unicode code points. *)

HiraganaFirst == 12353
HiraganaLast == 12435
HiraganaA == 12354
KatakanaA == 12450

\* matches!(c, 'ぁ'..='ん'); the mutant's range excludes its upper end.
IsHiraganaExclusive(c) == c >= HiraganaFirst /\ c < HiraganaLast
IsHiragana(c) == c >= HiraganaFirst /\ c <= HiraganaLast

\* let diff = 'ア' as u32 - 'あ' as u32;
KanaDiff == KatakanaA - HiraganaA

\* input.find(|c| matches!(c, 'ぁ'..='ん')): the first position, 0 for None.
FindHiragana(input) ==
    LET hits == {i \in 1..Len(input) : IsHiragana(input[i])}
    IN  IF hits = {} THEN 0 ELSE CHOOSE i \in hits : \A j \in hits : i <= j

to_katakana(input) ==
    LET pos == FindHiragana(input)
    IN  IF pos = 0
        THEN input                                   \* Cow::Borrowed(input)
        ELSE SubSeq(input, 1, pos - 1) \o            \* input[..pos].to_owned()
             [k \in 1..(Len(input) - pos + 1) |->
                 LET c == input[pos + k - 1]
                 IN  IF IsHiragana(c) THEN c + KanaDiff ELSE c]

\* Code points the inputs are drawn from: ASCII, the ends of the hiragana
\* range and their neighbours, and a katakana.
KanaChars == {97, 12352, 12353, 12354, 12435, 12436, 12450}

KanaInit ==
    /\ kana_input \in SeqsUpTo(KanaChars, MaxStrLen)
    /\ kana_output = <<>>
    /\ kana_pc = "ready"

KanaIdle ==
    /\ kana_input = <<>>
    /\ kana_output = <<>>
    /\ kana_pc = "idle"

ToKatakana ==
    /\ kana_pc = "ready"
    /\ kana_output' = to_katakana(kana_input)
    /\ kana_pc' = "done"
    /\ UNCHANGED <<kana_input, notKana>>

----------------------------------------------------------------------------
(* key.rs: PageIter.  `pages` is the byte slice handed to PageIter::new. *)

DbgDumpLen == 100

\* The five tuple shapes of PageIter::new's match: the bytes a tuple with
\* this tag takes, 0 for a tag the match does not know.
ShapeLen(tag) ==
    CASE tag = 1 -> 2
      [] tag = 2 -> 3
      [] tag = 4 -> 4
      [] tag = 17 -> 3
      [] tag = 18 -> 4
      [] OTHER -> 0

\* Does a slice pattern such as &[2, _, _, ref t @ ..] match `tail`?
ShapeMatches(tail) ==
    /\ Len(tail) >= 1
    /\ ShapeLen(tail[1]) > 0
    /\ Len(tail) >= ShapeLen(tail[1])

\* CHECK INVARIANT B: for _ in 0..count { match tail { ... } }
\* Gives the tail left after n tuples, or the tail `e` the match rejected.
RECURSIVE CheckShape(_, _)
CheckShape(tail, n) ==
    IF n = 0 THEN [ok |-> TRUE, tail |-> tail]
    ELSE IF ShapeMatches(tail)
         THEN CheckShape(From(tail, ShapeLen(tail[1])), n - 1)
         ELSE [ok |-> FALSE, tail |-> tail]

\* span: &pages[..span_len]; the mutant keeps the whole slice.
NewSpanWhole(body, tail) == body
NewSpan(body, tail) == SubSeq(body, 1, Len(body) - Len(tail))

\* u32::from_be_bytes([0, hi, mid, lo]); the mutant reads it little-endian.
pid_le(hi, mid, lo, item) == [page |-> lo * 65536 + mid * 256 + hi, item |-> item]
pid(hi, mid, lo, item) == [page |-> hi * 65536 + mid * 256 + lo, item |-> item]

\* The (id, tail) pair of PageIter::next's match on a matching span.
NextItem(s) ==
    CASE s[1] = 1 -> pid(0, 0, s[2], 0)
      [] s[1] = 2 -> pid(0, s[2], s[3], 0)
      [] s[1] = 4 -> pid(s[2], s[3], s[4], 0)
      [] s[1] = 17 -> pid(0, 0, s[2], s[3])
      [] s[1] = 18 -> pid(0, s[2], s[3], s[4])

\* Bytes the runs are drawn from: the five tags (which also serve as page
\* and item bytes) and one byte that is no tag.
RunBytes == {1, 2, 3, 4, 17, 18}

\* What follows the run in the buffer: nothing, or a stretch of zero bytes.
PadLens == {0, DbgDumpLen}

CountBytes(c) == <<c % 256, c \div 256>>

PageInputs ==
    {<<>>, <<1>>} \cup
    {CountBytes(c) \o b \o Zeros(p) :
        c \in 0..MaxCount, b \in SeqsUpTo(RunBytes, MaxRunBytes), p \in PadLens}

PagesInit ==
    /\ pages \in PageInputs
    /\ iter_res = "init"
    /\ count = 0
    /\ span = <<>>
    /\ yielded = <<>>
    /\ last_next = "none"

PagesIdle ==
    /\ pages = <<>>
    /\ iter_res = "idle"
    /\ count = 0
    /\ span = <<>>
    /\ yielded = <<>>
    /\ last_next = "none"

\* PageIter::new(pages)
PageIter_new(p) ==
    IF Len(p) < 2
    THEN \* pages.split_at(2) panics: mid > len
         [res |-> "panic", count |-> 0, span |-> <<>>]
    ELSE LET cnt == p[1] + 256 * p[2]                \* u16::from_le_bytes
             body == From(p, 2)
             chk == CheckShape(body, cnt)
         IN  IF chk.ok
             THEN [res |-> "Ok", count |-> cnt, span |-> NewSpan(body, chk.tail)]
             ELSE \* dbg!("hmm", &e[..100]); return Err(Error::InvalidIndex)
                  [res |-> IF Len(chk.tail) < DbgDumpLen THEN "panic" ELSE "InvalidIndex",
                   count |-> 0, span |-> <<>>]

PageIterNew ==
    /\ iter_res = "init"
    /\ LET r == PageIter_new(pages)
       IN  /\ iter_res' = r.res
           /\ count' = r.count
           /\ span' = r.span
    /\ UNCHANGED <<pages, yielded, last_next, overflow_checks, notPages>>

\* PageIter::next(&mut self)
PageIterNext ==
    /\ iter_res = "Ok"
    /\ last_next \in {"none", "Some"}
    /\ IF ShapeMatches(span)
       THEN IF count = 0
            THEN \* self.count -= 1 on a u16 that is 0
                 /\ last_next' = IF overflow_checks THEN "overflow_panic" ELSE "Some"
                 /\ count' = IF overflow_checks THEN count ELSE 65535
                 /\ span' = IF overflow_checks THEN span
                            ELSE From(span, ShapeLen(span[1]))
                 /\ yielded' = IF overflow_checks THEN yielded
                               ELSE Append(yielded, NextItem(span))
            ELSE /\ count' = count - 1
                 /\ span' = From(span, ShapeLen(span[1]))
                 /\ yielded' = Append(yielded, NextItem(span))
                 /\ last_next' = "Some"
       ELSE /\ last_next' = IF span = <<>> THEN "None" ELSE "unreachable"
            /\ UNCHANGED <<count, span, yielded>>
    /\ UNCHANGED <<pages, iter_res, overflow_checks, notPages>>

----------------------------------------------------------------------------
(* Rust's slice::binary_search_by, as the callers below use it.  `cmps` is *)
(* the comparator's answer for each element; the result is Ok(idx) or      *)
(* Err(idx) with idx 0-based.                                              *)

RECURSIVE BSearch(_, _, _)
BSearch(cmps, left, right) ==
    IF left >= right THEN [found |-> FALSE, idx |-> left]
    ELSE LET mid == left + (right - left) \div 2
             cmp == cmps[mid + 1]
         IN  IF cmp = "Equal" THEN [found |-> TRUE, idx |-> mid]
             ELSE IF cmp = "Less" THEN BSearch(cmps, mid + 1, right)
             ELSE BSearch(cmps, left, mid)

binary_search_by(cmps) == BSearch(cmps, 0, Len(cmps))

\* Ordering::reverse
Reverse(ord) ==
    IF ord = "Less" THEN "Greater" ELSE IF ord = "Greater" THEN "Less" ELSE ord

\* Ord::cmp on integers
CmpInt(a, b) == IF a < b THEN "Less" ELSE IF a > b THEN "Greater" ELSE "Equal"

Min(a, b) == IF a <= b THEN a ELSE b

----------------------------------------------------------------------------
(* resource/rsc.rs, resource/nrsc.rs: the segment-file set.  dir_entries   *)
(* are the directory's entries whose names parse_fname gives a sequence    *)
(* number for, in the order read_dir lists them.                           *)

RscFirstSeqnum == 1
NrscFirstSeqnum == 0

\* Segment lengths the directory entries are drawn from.
SegLens == {0, 1, 2}

DirEntry == [seqnum : 0..MaxFiles, len : SegLens]

\* files.sort_by_key(|f| f.seqnum): a stable sort; the mutant does not sort.
RECURSIVE InsertBySeqnum(_, _)
InsertBySeqnum(sorted, f) ==
    IF sorted = <<>> THEN <<f>>
    ELSE IF sorted[Len(sorted)].seqnum <= f.seqnum THEN Append(sorted, f)
    ELSE Append(InsertBySeqnum(SubSeq(sorted, 1, Len(sorted) - 1), f),
                sorted[Len(sorted)])

RECURSIVE SortFrom(_, _)
SortFrom(fs, k) ==
    IF k = 0 THEN <<>> ELSE InsertBySeqnum(SortFrom(fs, k - 1), fs[k])

NoSort(fs) == fs
sort_by_key(fs) == SortFrom(fs, Len(fs))

\* for (i, cf) in files.iter_mut().enumerate() { ... }: i is 0-based.
RECURSIVE AssignOffsets(_, _, _, _)
AssignOffsets(fs, i, offset, first) ==
    IF i = Len(fs) THEN [ok |-> TRUE, files |-> fs]
    ELSE IF fs[i + 1].seqnum # i + first
         THEN [ok |-> FALSE, files |-> <<>>]         \* Err(MissingResourceFile)
         ELSE AssignOffsets([fs EXCEPT ![i + 1].offset = offset],
                            i + 1, offset + fs[i + 1].len, first)

\* The pushed ResourceFile values: offset: 0 until the second loop.
Pushed(entries) ==
    [i \in 1..Len(entries) |->
        [seqnum |-> entries[i].seqnum, len |-> entries[i].len, offset |-> 0]]

\* The body shared by Rsc::files and Nrsc::files.  io_fails: read_dir, an
\* entry, its metadata or File::open fails.
FilesResult(entries, first, io_fails) ==
    IF io_fails THEN [res |-> "IOError", files |-> <<>>]
    ELSE LET r == AssignOffsets(sort_by_key(Pushed(entries)), 0, 0, first)
         IN  IF r.ok THEN [res |-> "Ok", files |-> r.files]
             ELSE [res |-> "MissingResourceFile", files |-> <<>>]

\* cmp_range(num, range); the mutant takes the range's end as inside it.
\* A second mutant takes the range's start as outside it.
cmp_range_after_start(num, start, end) ==
    IF num <= start THEN "Less" ELSE IF end <= num THEN "Greater" ELSE "Equal"
cmp_range_inclusive(num, start, end) ==
    IF num < start THEN "Less" ELSE IF end < num THEN "Greater" ELSE "Equal"
cmp_range(num, start, end) ==
    IF num < start THEN "Less" ELSE IF end <= num THEN "Greater" ELSE "Equal"

\* file_offset(contents, offset): Ok((file, offset - cf.offset)), the file
\* named by its 0-based position in contents, or Err(InvalidIndex).
file_offset(contents, offset) ==
    LET cmps == [i \in 1..Len(contents) |->
                    Reverse(cmp_range(offset, contents[i].offset,
                                      contents[i].offset + contents[i].len))]
        r == binary_search_by(cmps)
    IN  IF r.found
        THEN [res |-> "Ok", file_idx |-> r.idx,
              file_offset |-> offset - contents[r.idx + 1].offset]
        ELSE [res |-> "InvalidIndex", file_idx |-> 0, file_offset |-> 0]

RECURSIVE TotalLen(_, _)
TotalLen(fs, k) == IF k = 0 THEN 0 ELSE fs[k].len + TotalLen(fs, k - 1)

SegInit ==
    /\ dir_entries \in SeqsUpTo(DirEntry, MaxFiles)
    /\ files = <<>>
    /\ files_res = "init"
    /\ files_kind = "none"
    /\ loc_offset = 0
    /\ loc_res = "none"
    /\ loc_file = 0
    /\ loc_local = 0

SegIdle ==
    /\ dir_entries = <<>>
    /\ files = <<>>
    /\ files_res = "idle"
    /\ files_kind = "none"
    /\ loc_offset = 0
    /\ loc_res = "none"
    /\ loc_file = 0
    /\ loc_local = 0

\* Rsc::files(path, rsc_name)
RscFiles ==
    /\ files_res = "init"
    /\ \E io_fails \in BOOLEAN :
          LET r == FilesResult(dir_entries, RscFirstSeqnum, io_fails)
          IN  /\ files_res' = r.res
              /\ files' = r.files
    /\ files_kind' = "rsc"
    /\ UNCHANGED <<dir_entries, loc_offset, loc_res, loc_file, loc_local, notSeg>>

\* Nrsc::files(path)
NrscFiles ==
    /\ files_res = "init"
    /\ \E io_fails \in BOOLEAN :
          LET r == FilesResult(dir_entries, NrscFirstSeqnum, io_fails)
          IN  /\ files_res' = r.res
              /\ files' = r.files
    /\ files_kind' = "nrsc"
    /\ UNCHANGED <<dir_entries, loc_offset, loc_res, loc_file, loc_local, notSeg>>

\* file_offset(&mut self.files, zoffset), as Rsc::load_contents calls it
FileOffset ==
    /\ files_res = "Ok"
    /\ files_kind = "rsc"
    /\ loc_res = "none"
    /\ \E g \in 0..(TotalLen(files, Len(files)) + 1) :
          LET r == file_offset(files, g)
          IN  /\ loc_offset' = g
              /\ loc_res' = r.res
              /\ loc_file' = r.file_idx
              /\ loc_local' = r.file_offset
    /\ UNCHANGED <<dir_entries, files, files_res, files_kind, notSeg>>

----------------------------------------------------------------------------
(* resource/rsc.rs: RscIndex.  idx is Option<Vec<IdxRecord>>: idx.some     *)
(* tells whether an .idx file was loaded, idx.v holds its records.         *)

IdxRecord == [item_id : 0..MaxItemId, map_idx : 0..MaxMapLen]

\* The item indexes of the model: records sorted by item_id, item_ids unique.
RECURSIVE SortedIds(_)
SortedIds(S) ==
    IF S = {} THEN <<>>
    ELSE LET m == CHOOSE x \in S : \A y \in S : x >= y
         IN  Append(SortedIds(S \ {m}), m)

IdxLists ==
    UNION {
        {[i \in 1..Cardinality(S) |->
             [item_id |-> SortedIds(S)[i], map_idx |-> f[SortedIds(S)[i]]]] :
            f \in [S -> 0..MaxMapLen]} :
        S \in SUBSET (0..MaxItemId)}

\* The map arrays of the model: n records, each its own (zoffset, ioffset).
MapOfLen(n) ==
    [i \in 1..n |-> [zoffset |-> ((i - 1) \div 2) * 10, ioffset |-> ((i - 1) % 2) * 10]]

\* The key of binary_search_by_key(&id, |r| r.item_id.read()); the mutant
\* searches by the wrong field.
IdxKeyMapIdx(r) == r.map_idx
IdxKey(r) == r.item_id

\* id.saturating_sub(1)
SaturatingSub1(n) == IF n = 0 THEN 0 ELSE n - 1

\* RscIndex::get_map_idx_by_id(&self, id)
get_map_idx_by_id(index, mp, i) ==
    IF ~index.some THEN [res |-> "Ok", idx |-> i]
    ELSE IF index.v = <<>> THEN [res |-> "NotFound", idx |-> 0]
    ELSE LET idx_list == index.v
             guess1 == Min(i, Len(idx_list) - 1)
             guess2 == Min(SaturatingSub1(i), Len(idx_list) - 1)
             r == binary_search_by(
                      [k \in 1..Len(idx_list) |-> CmpInt(IdxKey(idx_list[k]), i)])
         IN  IF idx_list[guess1 + 1].item_id = i THEN [res |-> "Ok", idx |-> guess1]
             ELSE IF idx_list[guess2 + 1].item_id = i THEN [res |-> "Ok", idx |-> guess2]
             ELSE IF ~r.found THEN [res |-> "NotFound", idx |-> 0]
             ELSE IF idx_list[r.idx + 1].map_idx >= Len(mp)
                  THEN [res |-> "IndexMismach", idx |-> 0]
                  ELSE [res |-> "Ok", idx |-> idx_list[r.idx + 1].map_idx]

NoRecord == [zoffset |-> 0, ioffset |-> 0]

\* RscIndex::get_by_id(&self, id): self.map[idx] panics out of range.
get_by_id(index, mp, i) ==
    LET r == get_map_idx_by_id(index, mp, i)
    IN  IF r.res # "Ok" THEN [res |-> r.res, rec |-> NoRecord]
        ELSE IF r.idx >= Len(mp) THEN [res |-> "panic", rec |-> NoRecord]
        ELSE [res |-> "Ok", rec |-> mp[r.idx + 1]]

RscInit ==
    /\ idx \in [some : {TRUE}, v : IdxLists] \cup {[some |-> FALSE, v |-> <<>>]}
    /\ map \in {MapOfLen(n) : n \in 0..MaxMapLen}
    /\ id \in 0..(MaxItemId + 1)
    /\ get_res = "init"
    /\ get_rec = NoRecord

RscIdle ==
    /\ idx = [some |-> FALSE, v |-> <<>>]
    /\ map = <<>>
    /\ id = 0
    /\ get_res = "idle"
    /\ get_rec = NoRecord

\* RscIndex::get_by_id(id)
GetById ==
    /\ get_res = "init"
    /\ LET r == get_by_id(idx, map, id)
       IN  /\ get_res' = r.res
           /\ get_rec' = r.rec
    /\ UNCHANGED <<idx, map, id, notRsc>>

----------------------------------------------------------------------------
(* key.rs: Keys.  words is LE32::slice_as_bytes(&self.words); an index is  *)
(* Option<Vec<LE32>>: index.some tells whether it was loaded, index.v      *)
(* holds its words, the first of them the number of keys.                  *)

\* usize::MAX.  TLC's integers are 32 bits wide, so the model takes the
\* largest of them; the code only ever compares it with lengths far below.
UsizeMax == 2147483647

SizeOfLE32 == 4

\* A code point's UTF-8 bytes (code points below U+10000).
Utf8(c) ==
    IF c < 128 THEN <<c>>
    ELSE IF c < 2048 THEN <<192 + (c \div 64), 128 + (c % 64)>>
    ELSE <<224 + (c \div 4096), 128 + ((c \div 64) % 64), 128 + (c % 64)>>

RECURSIVE Utf8Str(_)
Utf8Str(str) ==
    IF str = <<>> THEN <<>> ELSE Utf8(Head(str)) \o Utf8Str(Tail(str))

IsCont(b) == b >= 128 /\ b <= 191

\* std::str::from_utf8(bytes).is_ok()
RECURSIVE from_utf8_ok(_)
from_utf8_ok(b) ==
    IF b = <<>> THEN TRUE
    ELSE LET b1 == b[1]
             n == Len(b)
         IN  IF b1 < 128 THEN from_utf8_ok(From(b, 1))
             ELSE IF b1 >= 194 /\ b1 <= 223
                  THEN n >= 2 /\ IsCont(b[2]) /\ from_utf8_ok(From(b, 2))
             ELSE IF b1 >= 224 /\ b1 <= 239
                  THEN /\ n >= 3
                       /\ IsCont(b[2]) /\ IsCont(b[3])
                       /\ b1 = 224 => b[2] >= 160
                       /\ b1 = 237 => b[2] <= 159
                       /\ from_utf8_ok(From(b, 3))
             ELSE IF b1 >= 240 /\ b1 <= 244
                  THEN /\ n >= 4
                       /\ IsCont(b[2]) /\ IsCont(b[3]) /\ IsCont(b[4])
                       /\ b1 = 240 => b[2] >= 144
                       /\ b1 = 244 => b[2] <= 143
                       /\ from_utf8_ok(From(b, 4))
             ELSE FALSE

\* u32 <-> its four little-endian bytes
LE32Bytes(n) == <<n % 256, (n \div 256) % 256, (n \div 65536) % 256, n \div 16777216>>
LE32Read(b, offset) ==
    b[offset + 1] + 256 * b[offset + 2] + 65536 * b[offset + 3] + 16777216 * b[offset + 4]

\* <[u8] as Ord>::cmp
RECURSIVE CmpBytes(_, _)
CmpBytes(a, b) ==
    IF a = <<>> /\ b = <<>> THEN "Equal"
    ELSE IF a = <<>> THEN "Less"
    ELSE IF b = <<>> THEN "Greater"
    ELSE IF a[1] < b[1] THEN "Less"
    ELSE IF a[1] > b[1] THEN "Greater"
    ELSE CmpBytes(Tail(a), Tail(b))

\* The bytes of b before its first zero byte (all of b without one):
\* b.split(|b| *b == b'\0').next()
RECURSIVE UpToNull(_)
UpToNull(b) ==
    IF b = <<>> \/ b[1] = 0 THEN <<>> ELSE <<b[1]>> \o UpToNull(Tail(b))

\* KeyIndex::get(&self, i)
KeyIndex_get(index, i) ==
    IF ~index.some THEN [res |-> "IndexDoesntExist", v |-> 0]
    ELSE IF i + 1 >= Len(index.v) THEN [res |-> "InvalidIndex", v |-> 0]
    ELSE [res |-> "Ok", v |-> index.v[i + 2]]

\* KeyIndex::len(&self) where the subtraction does not overflow, and where
\* it wraps (an absent index in a build without overflow checks).
KeyIndex_len(index) ==
    IF index.some THEN Len(index.v) - 1 ELSE UsizeMax

\* Keys::cmp_key(&self, target, idx); target is the query's UTF-8 bytes.
cmp_key(w, index, tgt, i) ==
    LET g == KeyIndex_get(index, i)
        offset == g.v + SizeOfLE32 + 1
        found_tail == From(w, offset)
        fnd == SubSeq(found_tail, 1, Len(tgt))
        ord == CmpBytes(fnd, tgt)
    IN  IF g.res # "Ok" THEN [res |-> g.res, ord |-> "Equal"]
        ELSE IF Len(w) < offset + Len(tgt) + 1
             THEN [res |-> "InvalidIndex", ord |-> "Equal"]
        ELSE IF ord = "Equal"
             THEN [res |-> "Ok",
                   ord |-> IF found_tail[Len(tgt) + 1] = 0 THEN "Equal" ELSE "Greater"]
             ELSE [res |-> "Ok", ord |-> ord]

\* Keys::get_word_span(&self, offset): (word, pages_offset)
get_word_span(w, offset) ==
    IF Len(w) < offset + 2 * SizeOfLE32
    THEN [res |-> "InvalidIndex", word |-> <<>>, pages_offset |-> 0]
    ELSE LET word == UpToNull(From(w, offset + SizeOfLE32 + 1))
         IN  IF from_utf8_ok(word)
             THEN [res |-> "Ok", word |-> word, pages_offset |-> LE32Read(w, offset)]
             ELSE [res |-> "Utf8Error", word |-> <<>>, pages_offset |-> 0]

\* Keys::get_page_iter(&self, pages_offset): the slice panics past the end.
get_page_iter(w, pages_offset) ==
    IF pages_offset > Len(w)
    THEN [res |-> "panic", count |-> 0, span |-> <<>>]
    ELSE PageIter_new(From(w, pages_offset))

\* Keys::get_idx(&self, index, idx), for a loaded index
get_idx(w, index, i) ==
    LET g == KeyIndex_get(index, i)
        ws == get_word_span(w, g.v)
        it == get_page_iter(w, ws.pages_offset)
    IN  IF i >= KeyIndex_len(index) THEN [res |-> "NotFound", count |-> 0, span |-> <<>>]
        ELSE IF g.res # "Ok" THEN [res |-> g.res, count |-> 0, span |-> <<>>]
        ELSE IF ws.res # "Ok" THEN [res |-> ws.res, count |-> 0, span |-> <<>>]
        ELSE it

(* The keystores of the model.  A keystore is laid out from its keys in    *)
(* prefix order: one word entry per key (u32le pages_offset, a length      *)
(* byte, the key's UTF-8 bytes, a null) and one page-reference run per     *)
(* key, the entries before the runs or after them.                         *)

\* A key much longer than the others: fifteen times "a".
LongKey == [i \in 1..15 |-> 97]

\* "a", "aa", "aア", "ア", "アa", "アア", the hiragana "あ", and the long key.
StoredKeys ==
    {<<97>>, <<97, 97>>, <<97, 12450>>, <<12450>>, <<12450, 97>>,
     <<12450, 12450>>, <<12354>>, LongKey}

QueryChars == {97, 12354, 12450}

Layouts == {"words_first", "pages_first"}

\* The keys of S in ascending byte order.
RECURSIVE SortKeys(_)
SortKeys(S) ==
    IF S = {} THEN <<>>
    ELSE LET m == CHOOSE x \in S :
                      \A y \in S : CmpBytes(Utf8Str(y), Utf8Str(x)) # "Greater"
         IN  Append(SortKeys(S \ {m}), m)

\* The page-reference run of the i-th key.
RunFor(i) ==
    IF i % 3 = 1 THEN <<1, 0, 1, i>>
    ELSE IF i % 3 = 2 THEN <<1, 0, 2, 1, i>>
    ELSE <<2, 0, 17, i, 7, 18, 1, i, 9>>

RECURSIVE Flatten(_)
Flatten(ss) == IF ss = <<>> THEN <<>> ELSE Head(ss) \o Flatten(Tail(ss))

\* read_vec reads ceil((end - start) / 4) words: a region that is no whole
\* number of words is read up to 3 bytes into the index-set header, whose
\* first word is the magic 0x04.
ReadPad(n) == SubSeq(<<4, 0, 0>>, 1, (4 - (n % 4)) % 4)

EntryLen(key) == SizeOfLE32 + 1 + Len(Utf8Str(key)) + 1

RECURSIVE SumEntryLens(_, _)
SumEntryLens(ks, k) == IF k = 0 THEN 0 ELSE EntryLen(ks[k]) + SumEntryLens(ks, k - 1)

RECURSIVE SumRunLens(_)
SumRunLens(k) == IF k = 0 THEN 0 ELSE Len(RunFor(k)) + SumRunLens(k - 1)

Keystore(ks, layout) ==
    LET n == Len(ks)
        entries_at == IF layout = "words_first" THEN 0 ELSE SumRunLens(n)
        runs_at == IF layout = "words_first" THEN SumEntryLens(ks, n) ELSE 0
        entry_off == [i \in 1..n |-> entries_at + SumEntryLens(ks, i - 1)]
        run_off == [i \in 1..n |-> runs_at + SumRunLens(i - 1)]
        entries == [i \in 1..n |->
                       LE32Bytes(run_off[i]) \o <<Len(Utf8Str(ks[i]))>> \o
                       Utf8Str(ks[i]) \o <<0>>]
        runs == [i \in 1..n |-> RunFor(i)]
        region == IF layout = "words_first"
                  THEN Flatten(entries) \o Flatten(runs)
                  ELSE Flatten(runs) \o Flatten(entries)
    IN  [words |-> region \o ReadPad(Len(region)),
         index |-> <<n>> \o entry_off]

KeySets == {S \in SUBSET StoredKeys : Cardinality(S) <= MaxKeys}

\* The queries: every short string, and every key a keystore may hold.
Queries == SeqsUpTo(QueryChars, MaxQueryLen) \cup StoredKeys

NoIter == [idx |-> 0, count |-> 0, span |-> <<>>]

KeysInit ==
    /\ \E S \in KeySets, layout \in Layouts, loaded \in BOOLEAN :
          LET k == Keystore(SortKeys(S), layout)
          IN  /\ words = k.words
              /\ index_prefix = IF loaded THEN [some |-> TRUE, v |-> k.index]
                                ELSE [some |-> FALSE, v |-> <<>>]
    /\ target_key \in Queries
    /\ target = <<>>
    /\ low = 0
    /\ high = 0
    /\ search_res = "init"
    /\ found = NoIter
    /\ probed = <<>>

KeysIdle ==
    /\ words = <<>>
    /\ index_prefix = [some |-> FALSE, v |-> <<>>]
    /\ target_key = <<>>
    /\ target = <<>>
    /\ low = 0
    /\ high = 0
    /\ search_res = "idle"
    /\ found = NoIter
    /\ probed = <<>>

\* Keys::search_exact, up to its loop: the fold and the two bounds.
SearchStart ==
    /\ search_res = "init"
    /\ target' = Utf8Str(to_katakana(target_key))
    /\ IF ~index_prefix.some /\ overflow_checks
       THEN \* KeyIndex::len: 0 - 1 panics
            /\ search_res' = "panic"
            /\ UNCHANGED <<low, high>>
       ELSE /\ high' = KeyIndex_len(index_prefix)
            /\ low' = 0
            /\ search_res' = "running"
    /\ UNCHANGED <<words, index_prefix, target_key, found, probed, overflow_checks, notKeys>>

\* One round of search_exact's loop: the test of `low <= high`, and the body.
SearchProbe ==
    /\ search_res = "running"
    /\ IF low > high
       THEN /\ search_res' = "NotFound"
            /\ UNCHANGED <<low, high, found, probed>>
       ELSE LET mid == low + (high - low) \div 2
                c == cmp_key(words, index_prefix, target, mid)
                it == get_idx(words, index_prefix, mid)
            IN  /\ probed' = Append(probed, mid)
                /\ IF c.res # "Ok"
                   THEN /\ search_res' = c.res
                        /\ UNCHANGED <<low, high, found>>
                   ELSE IF c.ord = "Less"
                   THEN /\ low' = mid + 1
                        /\ UNCHANGED <<high, search_res, found>>
                   ELSE IF c.ord = "Greater"
                   THEN IF mid = 0
                        THEN \* high = mid - 1 on a usize that is 0
                             /\ high' = IF overflow_checks THEN high ELSE UsizeMax
                             /\ search_res' = IF overflow_checks THEN "panic"
                                              ELSE search_res
                             /\ UNCHANGED <<low, found>>
                        ELSE /\ high' = mid - 1
                             /\ UNCHANGED <<low, search_res, found>>
                   ELSE /\ search_res' = it.res
                        /\ found' = IF it.res = "Ok"
                                    THEN [idx |-> mid, count |-> it.count, span |-> it.span]
                                    ELSE found
                        /\ UNCHANGED <<low, high>>
    /\ UNCHANGED <<words, index_prefix, target_key, target, overflow_checks, notKeys>>

----------------------------------------------------------------------------
(* resource.rs, lib.rs: decompress.  The inflate engine is a library; the  *)
(* model describes a compressed stream by what the engine does with it:    *)
(* in_len input bytes of which the engine consumes `consumed`, the bytes   *)
(* `data` it writes, and the status it ends with once they are written.    *)

Endings == {"Done", "Failed", "NeedsMoreInput"}

DataBytes == {1, 2}

Streams ==
    {st \in [in_len : 0..MaxInLen, consumed : 0..MaxInLen,
             data : SeqsUpTo(DataBytes, MaxDataLen), ending : Endings] :
        st.consumed <= st.in_len}

\* out with bytes d written at (0-based) position pos.
WriteAt(out, pos, d) ==
    [i \in 1..Len(out) |-> IF i > pos /\ i <= pos + Len(d) THEN d[i - pos] ELSE out[i]]

\* zlib::decompress(state, &in_buf[n_in_total..], out_buf, n_out_total, flags)
\* with a non-wrapping output buffer: the engine fills what room there is
\* and asks for more, or writes the rest and ends.
EngineRound(st, out, n_in_total, n_out_total) ==
    LET room == Len(out) - n_out_total
        rest == Len(st.data) - n_out_total
        n_out == Min(room, rest)
        more == rest > room
    IN  [status |-> IF more THEN "HasMoreOutput" ELSE st.ending,
         n_in |-> IF more THEN Min(1, st.consumed - n_in_total)
                  ELSE st.consumed - n_in_total,
         n_out |-> n_out,
         out |-> WriteAt(out, n_out_total,
                         SubSeq(st.data, n_out_total + 1, n_out_total + n_out))]

LengthCheckSkipped(n_in_total, in_len, n_out_total) == [res |-> "Ok", n |-> n_out_total]

\* After the loop: if n_in_total != in_buf.len() { Err(IncorrectStreamLength) }
\* else Ok(n_out_total)
LengthCheck(n_in_total, in_len, n_out_total) ==
    IF n_in_total # in_len THEN [res |-> "IncorrectStreamLength", n |-> 0]
    ELSE [res |-> "Ok", n |-> n_out_total]

\* The loop of decompress, from one call of the engine on.
RECURSIVE DecompressLoop(_, _, _, _, _)
DecompressLoop(st, out, n_in_total, n_out_total, rounds) ==
    LET r == EngineRound(st, out, n_in_total, n_out_total)
        n_out_total2 == n_out_total + r.n_out
        n_in_total2 == n_in_total + r.n_in
        rounds2 == Append(rounds, [status |-> r.status, n_in |-> r.n_in, n_out |-> r.n_out])
    IN  IF r.status = "HasMoreOutput"
        THEN \* out_buf.resize(out_buf.len() * 2 + 1, 0)
             DecompressLoop(st, r.out \o Zeros(Len(r.out) + 1),
                            n_in_total2, n_out_total2, rounds2)
        ELSE IF r.status = "Done"
        THEN LET c == LengthCheck(n_in_total2, st.in_len, n_out_total2)
             IN  [res |-> c.res, n |-> c.n, out |-> r.out, rounds |-> rounds2]
        ELSE [res |-> "ZlibError", n |-> 0, out |-> r.out, rounds |-> rounds2]

\* decompress(zlib_state, in_buf, out_buf)
decompress(st, out) == DecompressLoop(st, out, 0, 0, <<>>)

NoStream == [in_len |-> 0, consumed |-> 0, data |-> <<>>, ending |-> "Done"]

\* What a buffer holds from earlier calls.
OutBufs == {[i \in 1..n |-> 9] : n \in 0..MaxDataLen}

InflateInit ==
    /\ z_stream \in Streams
    /\ z_out \in OutBufs
    /\ z_res = "init"
    /\ z_n = 0
    /\ z_rounds = <<>>

InflateIdle ==
    /\ z_stream = NoStream
    /\ z_out = <<>>
    /\ z_res = "idle"
    /\ z_n = 0
    /\ z_rounds = <<>>

Decompress ==
    /\ z_res = "init"
    /\ LET d == decompress(z_stream, z_out)
       IN  /\ z_res' = d.res
           /\ z_n' = d.n
           /\ z_out' = d.out
           /\ z_rounds' = d.rounds
    /\ UNCHANGED <<z_stream, notInflate>>

----------------------------------------------------------------------------
(* resource/rsc.rs: Rsc, its block cache.  Each segment file of the model  *)
(* holds one compressed block at its start; disk[k] is the stream in       *)
(* the k-th segment.  An inflated block is a run of items, each a u32le    *)
(* length and that many bytes.                                             *)

\* A block of one item of one byte b.
ItemBlock(b) == <<1, 0, 0, 0, b>>

\* The blocks a segment may hold, of one item or of two: sound ones, and
\* ones whose stream fails or ends before the input does, after some or all
\* bytes were written.
CacheStreams ==
    {[in_len |-> 2, consumed |-> c, data |-> d, ending |-> e] :
        c \in {1, 2}, d \in {ItemBlock(7), ItemBlock(8), ItemBlock(7) \o ItemBlock(9)},
        e \in {"Done", "Failed"}}

\* Two segments of 10 bytes each: Rsc::files of a directory with 1 and 2.
CacheFiles ==
    FilesResult(<<[seqnum |-> 1, len |-> 10], [seqnum |-> 2, len |-> 10]>>,
                RscFirstSeqnum, FALSE).files

\* The map: the item of each block, a block past the last segment, and
\* item offsets at and past the end of a block.
CacheMap ==
    <<[zoffset |-> 0, ioffset |-> 0], [zoffset |-> 10, ioffset |-> 0],
      [zoffset |-> 20, ioffset |-> 0], [zoffset |-> 0, ioffset |-> 4],
      [zoffset |-> 10, ioffset |-> 6], [zoffset |-> 0, ioffset |-> 5]>>

\* Rsc::load_contents(&mut self, zoffset), on the cache c, from the answer
\* fo of file_offset on: d is what decompress makes of the block read, and
\* io_fails tells that the seek or one of the two reads fails.  zlib_buf,
\* which the reads fill anew up to len before decompress looks at it, is
\* left out of the cache.
LoadFrom(c, fo, d, zoffset, io_fails) ==
    IF fo.res # "Ok" THEN [res |-> fo.res, c |-> c, loaded |-> TRUE]
    ELSE IF io_fails THEN [res |-> "IOError", c |-> c, loaded |-> TRUE]
    ELSE IF d.res # "Ok"
    THEN [res |-> d.res, c |-> [c EXCEPT !.contents_buf = d.out], loaded |-> TRUE]
    ELSE [res |-> "Ok",
          c |-> [c EXCEPT !.contents_buf = d.out, !.current_len = d.n,
                          !.current_offset = zoffset],
          loaded |-> TRUE]

\* Rsc::load_contents(&mut self, zoffset)
load_contents(c, fs, dsk, zoffset, io_fails) ==
    LET fo == file_offset(fs, zoffset)
    IN  LoadFrom(c, fo, decompress(dsk[fo.file_idx + 1], c.contents_buf),
                 zoffset, io_fails)

\* Is the request a hit of the cache?  The mutant never finds one.
IsHitNever(c, rec) == FALSE
IsHit(c, rec) == ~(c.contents_buf = <<>> \/ rec.zoffset # c.current_offset)

\* &self.contents_buf[idx.ioffset.us()..self.current_len]; the mutant
\* takes the buffer to its end.
ItemWindowToEnd(buf, ioffset, len) == SubSeq(buf, ioffset + 1, Len(buf))
ItemWindow(buf, ioffset, len) == SubSeq(buf, ioffset + 1, len)

\* Rsc::get_by_map, once the block is in the cache (l.res = "Ok") or has
\* failed to load: the item at idx.ioffset.
ReadItem(l, rec) ==
    LET buf == l.c.contents_buf
        contents == ItemWindow(buf, rec.ioffset, l.c.current_len)
        len == LE32Read(contents, 0)
        contents_tail == From(contents, SizeOfLE32)
    IN  IF l.res # "Ok" THEN [res |-> l.res, c |-> l.c, out |-> <<>>, loaded |-> l.loaded]
        ELSE IF rec.ioffset > l.c.current_len \/ l.c.current_len > Len(buf)
             THEN [res |-> "panic", c |-> l.c, out |-> <<>>, loaded |-> l.loaded]
        ELSE IF Len(contents) < SizeOfLE32
             THEN [res |-> "BufferTooSmall", c |-> l.c, out |-> <<>>, loaded |-> l.loaded]
        ELSE IF len > Len(contents_tail)
             THEN [res |-> "panic", c |-> l.c, out |-> <<>>, loaded |-> l.loaded]
        ELSE [res |-> "Ok", c |-> l.c, out |-> SubSeq(contents_tail, 1, len),
              loaded |-> l.loaded]

\* Rsc::get_by_map(&mut self, idx: MapRecord)
get_by_map(c, fs, dsk, rec, io_fails) ==
    ReadItem(IF IsHit(c, rec) THEN [res |-> "Ok", c |-> c, loaded |-> FALSE]
             ELSE load_contents(c, fs, dsk, rec.zoffset, io_fails),
             rec)

\* RscIndex::get_by_idx(&self, idx), for an Rsc without item index
rsc_index_get_by_idx(mp, i) ==
    IF i >= Len(mp) THEN [res |-> "InvalidIndex", rec |-> NoRecord]
    ELSE [res |-> "Ok", rec |-> mp[i + 1]]

NoIndex == [some |-> FALSE, v |-> <<>>]

Cache ==
    [contents_buf |-> contents_buf, current_offset |-> current_offset,
     current_len |-> current_len]

\* Rsc::new: nothing loaded yet.
CacheInit ==
    /\ disk \in [1..Len(CacheFiles) -> CacheStreams]
    /\ rsc_files = CacheFiles
    /\ rsc_map = CacheMap
    /\ contents_buf = <<>>
    /\ current_offset = 0
    /\ current_len = 0
    /\ rsc_calls = 0
    /\ rsc_req = NoRecord
    /\ rsc_read = FALSE
    /\ rsc_hit = FALSE
    /\ rsc_loaded = FALSE
    /\ rsc_res = "init"
    /\ rsc_out = <<>>

CacheIdle ==
    /\ disk = <<>>
    /\ rsc_files = <<>>
    /\ rsc_map = <<>>
    /\ contents_buf = <<>>
    /\ current_offset = 0
    /\ current_len = 0
    /\ rsc_calls = 0
    /\ rsc_req = NoRecord
    /\ rsc_read = FALSE
    /\ rsc_hit = FALSE
    /\ rsc_loaded = FALSE
    /\ rsc_res = "idle"
    /\ rsc_out = <<>>

\* The end of Rsc::get and Rsc::get_by_idx: the index answered r, and if
\* that is a record, get_by_map answered g.
Fetch(r, g) ==
    /\ rsc_calls' = rsc_calls + 1
    /\ IF r.res # "Ok"
       THEN /\ rsc_res' = r.res
            /\ rsc_out' = <<>>
            /\ rsc_req' = NoRecord
            /\ rsc_read' = FALSE
            /\ rsc_hit' = FALSE
            /\ rsc_loaded' = FALSE
            /\ UNCHANGED <<contents_buf, current_offset, current_len>>
       ELSE /\ rsc_res' = g.res
            /\ rsc_out' = g.out
            /\ rsc_req' = r.rec
            /\ rsc_read' = TRUE
            /\ rsc_hit' = IsHit(Cache, r.rec)
            /\ rsc_loaded' = g.loaded
            /\ contents_buf' = g.c.contents_buf
            /\ current_offset' = g.c.current_offset
            /\ current_len' = g.c.current_len
    /\ UNCHANGED <<disk, rsc_files, rsc_map, notCache>>

\* Rsc::get(&mut self, id)
RscGet ==
    /\ rsc_res # "idle"
    /\ rsc_res # "panic"
    /\ rsc_calls < MaxCalls
    /\ \E i \in 0..Len(rsc_map), io_fails \in BOOLEAN :
          \E r \in {get_by_id(NoIndex, rsc_map, i)} :
             Fetch(r, get_by_map(Cache, rsc_files, disk, r.rec, io_fails))

\* Rsc::get_by_idx(&mut self, idx)
RscGetByIdx ==
    /\ rsc_res # "idle"
    /\ rsc_res # "panic"
    /\ rsc_calls < MaxCalls
    /\ \E i \in 0..Len(rsc_map), io_fails \in BOOLEAN :
          \E r \in {rsc_index_get_by_idx(rsc_map, i)} :
             Fetch(r, get_by_map(Cache, rsc_files, disk, r.rec, io_fails))

----------------------------------------------------------------------------
(* resource/nrsc.rs: NrscIndex.  ids is the id table, a String, as its     *)
(* UTF-8 bytes; offsets of the file count from the file's start, the       *)
(* table starts behind the 8 header bytes and the records.                 *)

NrscHeaderSize == 8
NrscRecordSize == 16

\* str::is_char_boundary
IsCharBoundary(str, i) ==
    \/ i = 0
    \/ i = Len(str)
    \/ i < Len(str) /\ ~IsCont(str[i + 1])

HasNull(b) == \E i \in 1..Len(b) : b[i] = 0

\* NrscIndex::get_id_at(&self, offset), for an index of n records.  The
\* subtraction of an offset before the table panics or wraps, and a
\* wrapped offset is past the end of ids; a str slice panics off a
\* character boundary.
get_id_at(n, tbl, offset) ==
    LET off == offset - (NrscRecordSize * n + NrscHeaderSize)
    IN  IF off < 0 THEN [res |-> "panic", id |-> <<>>]
        ELSE IF off > 0 /\ ~(IsCharBoundary(tbl, off - 1) /\ IsCharBoundary(tbl, off))
             THEN [res |-> "panic", id |-> <<>>]
        ELSE IF off > 0 /\ tbl[off] # 0 THEN [res |-> "InvalidIndex", id |-> <<>>]
        ELSE IF ~IsCharBoundary(tbl, off) THEN [res |-> "panic", id |-> <<>>]
        ELSE IF ~HasNull(From(tbl, off)) THEN [res |-> "InvalidIndex", id |-> <<>>]
        ELSE [res |-> "Ok", id |-> UpToNull(From(tbl, off))]

\* The positions binary_search_by calls its comparator on, in order.
RECURSIVE BSearchProbes(_, _, _)
BSearchProbes(cmps, left, right) ==
    IF left >= right THEN <<>>
    ELSE LET mid == left + (right - left) \div 2
         IN  IF cmps[mid + 1] = "Equal" THEN <<mid>>
             ELSE IF cmps[mid + 1] = "Less"
                  THEN <<mid>> \o BSearchProbes(cmps, mid + 1, right)
                  ELSE <<mid>> \o BSearchProbes(cmps, left, mid)

NoNrscRecord == [format |-> 0, fileseq |-> 0, id_str_offset |-> 0, file_offset |-> 0, len |-> 0]

\* The error idx_err is left with: that of the last probe whose id could
\* not be read.
RECURSIVE LastErr(_, _)
LastErr(results, probes) ==
    IF probes = <<>> THEN "Ok"
    ELSE LET r == results[probes[Len(probes)] + 1].res
         IN  IF r # "Ok" THEN r ELSE LastErr(results, SubSeq(probes, 1, Len(probes) - 1))

SearchKeyEmpty(r) == <<>>

\* The key binary_search_by_key compares: the record's id, or "" when
\* get_id_at fails.
SearchKey(r) == IF r.res = "Ok" THEN r.id ELSE <<>>

\* NrscIndex::get_by_id(&self, id), from the answers of get_id_at for the
\* records (results) and the comparator's values (cmps) on.
GetByIdFrom(recs, results, cmps, probes, r) ==
    IF \E k \in 1..Len(probes) : results[probes[k] + 1].res = "panic"
    THEN [res |-> "panic", rec |-> NoNrscRecord]
    ELSE IF ~r.found THEN [res |-> "NotFound", rec |-> NoNrscRecord]
    ELSE IF LastErr(results, probes) # "Ok"
         THEN [res |-> LastErr(results, probes), rec |-> NoNrscRecord]
    ELSE [res |-> "Ok", rec |-> recs[r.idx + 1]]

NrscCmps(recs, tbl, i) ==
    [k \in 1..Len(recs) |->
        CmpBytes(SearchKey(get_id_at(Len(recs), tbl, recs[k].id_str_offset)), i)]

\* NrscIndex::get_by_id(&self, id)
nrsc_get_by_id(recs, tbl, i) ==
    GetByIdFrom(recs,
                [k \in 1..Len(recs) |-> get_id_at(Len(recs), tbl, recs[k].id_str_offset)],
                NrscCmps(recs, tbl, i),
                BSearchProbes(NrscCmps(recs, tbl, i), 0, Len(recs)),
                binary_search_by(NrscCmps(recs, tbl, i)))

(* The indexes of the model: up to MaxIds ids in byte order, each followed *)
(* by a null, the last one possibly not (a table cut short).               *)

\* "", "a", "ab", "b", "あ", "aあ"
NrscIdPool == {<<>>, <<97>>, <<97, 98>>, <<98>>, <<12354>>, <<97, 12354>>}

NrscIdSets == {S \in SUBSET NrscIdPool : Cardinality(S) <= MaxIds}

RECURSIVE SumIdLens(_, _)
SumIdLens(ks, k) == IF k = 0 THEN 0 ELSE Len(Utf8Str(ks[k])) + 1 + SumIdLens(ks, k - 1)

NrscTable(ks, terminated) ==
    LET all == Flatten([i \in 1..Len(ks) |-> Utf8Str(ks[i]) \o <<0>>])
    IN  IF terminated \/ ks = <<>> THEN all ELSE SubSeq(all, 1, Len(all) - 1)

NrscRecords(ks) ==
    [i \in 1..Len(ks) |->
        [format |-> 0, fileseq |-> 0,
         id_str_offset |-> NrscRecordSize * Len(ks) + NrscHeaderSize + SumIdLens(ks, i - 1),
         file_offset |-> i, len |-> 0]]

NrscInit ==
    /\ \E S \in NrscIdSets, terminated \in BOOLEAN :
          /\ nrsc_keys = [i \in 1..Cardinality(S) |-> Utf8Str(SortKeys(S)[i])]
          /\ nidx = NrscRecords(SortKeys(S))
          /\ ids = NrscTable(SortKeys(S), terminated)
    /\ n_offset = 0
    /\ n_id = <<>>
    /\ n_op = "init"
    /\ n_res = "init"
    /\ n_out_id = <<>>
    /\ n_out_rec = NoNrscRecord

NrscIdle ==
    /\ nidx = <<>>
    /\ ids = <<>>
    /\ nrsc_keys = <<>>
    /\ n_offset = 0
    /\ n_id = <<>>
    /\ n_op = "idle"
    /\ n_res = "idle"
    /\ n_out_id = <<>>
    /\ n_out_rec = NoNrscRecord

\* NrscIndex::get_id_at(offset), for every offset of the table region and
\* the one behind it, and for the offset 0 of the file.
GetIdAt ==
    /\ n_op = "init"
    /\ \E offset \in {0} \cup {NrscRecordSize * Len(nidx) + NrscHeaderSize + off :
                                    off \in 0..Len(ids)} :
          /\ n_offset' = offset
          /\ \E g \in {get_id_at(Len(nidx), ids, offset)} :
                /\ n_res' = g.res
                /\ n_out_id' = g.id
    /\ n_op' = "get_id_at"
    /\ UNCHANGED <<nidx, ids, nrsc_keys, n_id, n_out_rec, notNrsc>>

\* NrscIndex::get_by_id(id)
NrscGetById ==
    /\ n_op = "init"
    /\ \E q \in NrscIdPool :
          /\ n_id' = Utf8Str(q)
          /\ \E g \in {nrsc_get_by_id(nidx, ids, Utf8Str(q))} :
                /\ n_res' = g.res
                /\ n_out_rec' = g.rec
    /\ n_op' = "get_by_id"
    /\ UNCHANGED <<nidx, ids, nrsc_keys, n_offset, n_out_id, notNrsc>>

----------------------------------------------------------------------------
(* resource/nrsc.rs: Nrsc, reading an item.  nd_segs[k] are the bytes of   *)
(* the k-th segment file; nd_stream is what the inflate engine makes of    *)
(* the bytes a record of format 1 names.                                   *)

Max0(n) == IF n < 0 THEN 0 ELSE n

\* Read::read_exact of len bytes at position pos of a file of bytes seg.
ReadExact(seg, pos, len) ==
    IF pos + len > Len(seg) THEN [ok |-> FALSE, bytes |-> <<>>]
    ELSE [ok |-> TRUE, bytes |-> SubSeq(seg, pos + 1, pos + len)]

\* read_buf.resize(len, 0) if it is shorter
Resized(buf, len) == IF Len(buf) < len THEN buf \o Zeros(len - Len(buf)) ELSE buf

\* NrscData::get_by_nidx_rec(&mut self, idx), from the read rd and the
\* inflation d on.  io_fails: the seek or the read fails.
NidxRecFrom(rec, nfiles, rbuf, dbuf, rd, d, io_fails) ==
    IF rec.fileseq >= nfiles
    THEN [res |-> "panic", out |-> <<>>, read_buf |-> rbuf, decomp_buf |-> dbuf]
    ELSE IF io_fails
    THEN [res |-> "IOError", out |-> <<>>, read_buf |-> rbuf, decomp_buf |-> dbuf]
    ELSE IF ~rd.ok
    THEN [res |-> "IOError", out |-> <<>>, read_buf |-> Resized(rbuf, rec.len),
          decomp_buf |-> dbuf]
    ELSE IF rec.format > 1
    THEN [res |-> "InvalidAudioFormat", out |-> <<>>,
          read_buf |-> WriteAt(Resized(rbuf, rec.len), 0, rd.bytes), decomp_buf |-> dbuf]
    ELSE IF rec.format = 0
    THEN [res |-> "Ok", out |-> rd.bytes,
          read_buf |-> WriteAt(Resized(rbuf, rec.len), 0, rd.bytes), decomp_buf |-> dbuf]
    ELSE [res |-> d.res, out |-> SubSeq(d.out, 1, d.n),
          read_buf |-> WriteAt(Resized(rbuf, rec.len), 0, rd.bytes), decomp_buf |-> d.out]

\* NrscData::get_by_nidx_rec(&mut self, idx)
get_by_nidx_rec(rec, segs, st, rbuf, dbuf, io_fails) ==
    NidxRecFrom(rec, Len(segs), rbuf, dbuf,
                IF rec.fileseq < Len(segs)
                THEN ReadExact(segs[rec.fileseq + 1], rec.file_offset, rec.len)
                ELSE [ok |-> FALSE, bytes |-> <<>>],
                decompress(st, dbuf), io_fails)

\* NrscIndex::get_by_idx(&self, idx)
nrsc_index_get_by_idx(recs, tbl, i) ==
    IF i >= Len(recs) THEN [res |-> "InvalidIndex", rec |-> NoNrscRecord, id |-> <<>>]
    ELSE [res |-> get_id_at(Len(recs), tbl, recs[i + 1].id_str_offset).res,
          rec |-> recs[i + 1],
          id |-> get_id_at(Len(recs), tbl, recs[i + 1].id_str_offset).id]

\* One segment, 0.nrsc, of four bytes.
NrscSegs == << <<11, 12, 13, 14>> >>

NrscDataFiles ==
    FilesResult(<<[seqnum |-> 0, len |-> Len(NrscSegs[1])]>>, NrscFirstSeqnum, FALSE).files

\* What the records of one index have in common: the format, the segment,
\* the length.  Record i reads at file_offset i - 1.
RecordShapes == [format : 0..2, fileseq : 0..1, len : {0, 2, 4}]

NrscDataRecords(ks, shape) ==
    [i \in 1..Len(ks) |->
        [NrscRecords(ks)[i] EXCEPT !.format = shape.format, !.fileseq = shape.fileseq,
                                   !.file_offset = i - 1, !.len = shape.len]]

\* The streams a record of format 1 and of length len may name.
NrscStreams(len) ==
    {[in_len |-> len, consumed |-> c, data |-> <<21, 22, 23>>, ending |-> e] :
        c \in {len, Max0(len - 1)}, e \in {"Done", "Failed"}}

NrscDataInit ==
    /\ \E S \in NrscIdSets, shape \in RecordShapes :
          /\ nrsc_keys = [i \in 1..Cardinality(S) |-> Utf8Str(SortKeys(S)[i])]
          /\ nidx = NrscDataRecords(SortKeys(S), shape)
          /\ ids = NrscTable(SortKeys(S), TRUE)
          /\ nd_stream \in IF shape.format = 1 THEN NrscStreams(shape.len) ELSE {NoStream}
    /\ n_offset = 0
    /\ n_id = <<>>
    /\ n_op = "init"
    /\ n_res = "init"
    /\ n_out_id = <<>>
    /\ n_out_rec = NoNrscRecord
    /\ nd_files = NrscDataFiles
    /\ nd_segs = NrscSegs
    /\ read_buf = <<>>
    /\ decomp_buf = <<>>
    /\ nd_read = FALSE
    /\ nd_out = <<>>

NrscDataIdle ==
    /\ nd_files = <<>>
    /\ nd_segs = <<>>
    /\ nd_stream = NoStream
    /\ read_buf = <<>>
    /\ decomp_buf = <<>>
    /\ nd_read = FALSE
    /\ nd_out = <<>>

\* The end of Nrsc::get and Nrsc::get_by_idx: the index answered r, and if
\* that is a record, get_by_nidx_rec answered g.
NrscFetch(r, g) ==
    /\ n_out_rec' = r.rec
    /\ IF r.res # "Ok"
       THEN /\ n_res' = r.res
            /\ nd_read' = FALSE
            /\ nd_out' = <<>>
            /\ UNCHANGED <<read_buf, decomp_buf>>
       ELSE /\ n_res' = g.res
            /\ nd_read' = TRUE
            /\ nd_out' = g.out
            /\ read_buf' = g.read_buf
            /\ decomp_buf' = g.decomp_buf
    /\ UNCHANGED <<nidx, ids, nrsc_keys, n_offset, nd_files, nd_segs, nd_stream, notNrscData>>

\* Nrsc::get(&mut self, id)
NrscGet ==
    /\ n_op = "init"
    /\ n_op' = "get"
    /\ n_out_id' = <<>>
    /\ \E q \in NrscIdPool, io_fails \in BOOLEAN :
          /\ n_id' = Utf8Str(q)
          /\ \E r \in {nrsc_get_by_id(nidx, ids, Utf8Str(q))} :
                NrscFetch(r, get_by_nidx_rec(r.rec, nd_segs, nd_stream,
                                             read_buf, decomp_buf, io_fails))

\* Nrsc::get_by_idx(&mut self, idx)
NrscGetByIdx ==
    /\ n_op = "init"
    /\ n_op' = "get_by_idx"
    /\ n_id' = <<>>
    /\ \E i \in 0..Len(nidx), io_fails \in BOOLEAN :
          \E r \in {nrsc_index_get_by_idx(nidx, ids, i)} :
             /\ n_out_id' = IF r.res = "Ok" THEN r.id ELSE <<>>
             /\ NrscFetch(r, get_by_nidx_rec(r.rec, nd_segs, nd_stream,
                                             read_buf, decomp_buf, io_fails))

----------------------------------------------------------------------------
(* key.rs: Keys::new, the four orderings.  idx_file is the index region of *)
(* the file (from idx_offset to the end of the file) as its LE32 words:    *)
(* the magic, the offsets of the orderings a, b, c, d in bytes from the    *)
(* region's start (0: the ordering is not there), then the orderings.      *)

IndexMagic == 4
IndexHeaderWords == 5

\* IndexHeader::validate(&self, file_end)
check_order(l, r) == l < r \/ r = 0
validate(f, fend) ==
    /\ f[1] = IndexMagic
    /\ check_order(f[2], f[3])
    /\ check_order(f[3], f[4])
    /\ check_order(f[4], f[5])
    /\ check_order(f[5], fend)

NoKeyIndex == [some |-> FALSE, v |-> <<>>]

\* Keys::read_vec(file, start, end) with the file at word pos: the vector
\* read and the file's position behind it.  read_exact fails at the end of
\* the file.
read_vec(f, pos, start, end) ==
    IF start = 0 \/ end = 0 THEN [res |-> "Ok", index |-> NoKeyIndex, pos |-> pos]
    ELSE IF pos + (end - start + SizeOfLE32 - 1) \div SizeOfLE32 > Len(f)
    THEN [res |-> "IOError", index |-> NoKeyIndex, pos |-> pos]
    ELSE [res |-> "Ok",
          index |-> [some |-> TRUE,
                     v |-> SubSeq(f, pos + 1,
                                  pos + (end - start + SizeOfLE32 - 1) \div SizeOfLE32)],
          pos |-> pos + (end - start + SizeOfLE32 - 1) \div SizeOfLE32]

\* Keys::check_vec_len(buf)
check_vec_len(index) ==
    IF ~index.some THEN "Ok"
    ELSE IF index.v = <<>> THEN "InvalidIndex"
    ELSE IF index.v[1] + 1 # Len(index.v) THEN "InvalidIndex"
    ELSE "Ok"

\* One read_vec and its check_vec_len, after the reads before it (prev).
CheckedRead(prev, r) ==
    IF r.res # "Ok" THEN [res |-> r.res, pos |-> r.pos, read |-> prev.read]
    ELSE [res |-> check_vec_len(r.index), pos |-> r.pos, read |-> Append(prev.read, r.index)]

ReadNext(f, prev, start, end) ==
    IF prev.res # "Ok" THEN prev
    ELSE CheckedRead(prev, read_vec(f, prev.pos, start, end))

\* Keys::new from the index header on: the four orderings, read one behind
\* the other from where the header ended.
LoadIndexes(f, fend) ==
    IF ~validate(f, fend)
    THEN [res |-> "KeyIndexHeaderValidate", pos |-> 0, read |-> <<>>]
    ELSE ReadNext(f,
           ReadNext(f,
             ReadNext(f,
               ReadNext(f, [res |-> "Ok", pos |-> IndexHeaderWords, read |-> <<>>],
                        f[2], f[3]),
               f[3], f[4]),
             f[4], f[5]),
           f[5], fend)

(* The files of the model: the keystore of three keys, and any subset of   *)
(* the four orderings, each a different order of the three keys, written   *)
(* one behind the other, directly behind the header or one word later.     *)

ThreeKeys == Keystore(<< <<97>>, <<97, 97>>, <<12450>> >>, "words_first")

\* The order of the keys in ordering j (1: a .. 4: d).
Order(j) ==
    IF j = 1 THEN <<1, 2, 3>> ELSE IF j = 2 THEN <<3, 2, 1>>
    ELSE IF j = 3 THEN <<2, 3, 1>> ELSE <<3, 1, 2>>

OrderingWords(j) == <<3>> \o [i \in 1..3 |-> ThreeKeys.index[Order(j)[i] + 1]]

\* The number of orderings of `present` before ordering j.
Before(present, j) == Cardinality({k \in present : k < j})

\* gap: the number of unused words between the header and the first
\* ordering.
IndexFile(present, gap) ==
    <<IndexMagic>> \o
    [j \in 1..4 |-> IF j \in present
                    THEN SizeOfLE32 * (IndexHeaderWords + gap + 4 * Before(present, j))
                    ELSE 0] \o
    [i \in 1..gap |-> 0] \o
    Flatten([j \in 1..4 |-> IF j \in present THEN OrderingWords(j) ELSE <<>>])

KeyIdxInit ==
    /\ \E present \in SUBSET (1..4), gap \in 0..1 :
          /\ idx_file = IndexFile(present, gap)
          /\ file_end = SizeOfLE32 * Len(IndexFile(present, gap))
    /\ words = ThreeKeys.words
    /\ index_len = NoKeyIndex
    /\ index_prefix = NoKeyIndex
    /\ index_suffix = NoKeyIndex
    /\ index_d = NoKeyIndex
    /\ new_res = "init"
    /\ ki_op = "none"
    /\ ki_which = 0
    /\ ki_arg = 0
    /\ ki_res = "none"
    /\ ki_word = <<>>
    /\ target_key \in Queries
    /\ target = <<>>
    /\ low = 0
    /\ high = 0
    /\ search_res = "unloaded"
    /\ found = NoIter
    /\ probed = <<>>

KeyIdxIdle ==
    /\ idx_file = <<>>
    /\ file_end = 0
    /\ index_len = NoKeyIndex
    /\ index_suffix = NoKeyIndex
    /\ index_d = NoKeyIndex
    /\ new_res = "idle"
    /\ ki_op = "none"
    /\ ki_which = 0
    /\ ki_arg = 0
    /\ ki_res = "none"
    /\ ki_word = <<>>

\* Keys::new, behind the reading of the words.
KeysNew ==
    /\ new_res = "init"
    /\ \E l \in {LoadIndexes(idx_file, file_end)} :
          /\ new_res' = l.res
          /\ index_len' = IF l.res = "Ok" THEN l.read[1] ELSE NoKeyIndex
          /\ index_prefix' = IF l.res = "Ok" THEN l.read[2] ELSE NoKeyIndex
          /\ index_suffix' = IF l.res = "Ok" THEN l.read[3] ELSE NoKeyIndex
          /\ index_d' = IF l.res = "Ok" THEN l.read[4] ELSE NoKeyIndex
          /\ search_res' = IF l.res = "Ok" THEN "init" ELSE search_res
    /\ UNCHANGED <<idx_file, file_end, ki_op, ki_which, ki_arg, ki_res, ki_word,
                   words, target_key, target, low, high, found, probed,
                   overflow_checks, notKeyIdx>>

\* The ordering j of the Keys.
OrderingOf(j) ==
    IF j = 1 THEN index_len ELSE IF j = 2 THEN index_prefix
    ELSE IF j = 3 THEN index_suffix ELSE index_d

\* KeyIndex::len(&self) on one of the orderings
KeyIndexLen ==
    /\ new_res = "Ok"
    /\ ki_op = "none"
    /\ ki_op' = "len"
    /\ \E j \in 1..4 :
          /\ ki_which' = j
          /\ IF ~OrderingOf(j).some /\ overflow_checks
             THEN ki_res' = "panic" /\ ki_arg' = 0
             ELSE ki_res' = "Ok" /\ ki_arg' = KeyIndex_len(OrderingOf(j))
    /\ UNCHANGED <<idx_file, file_end, index_len, index_suffix, index_d, new_res, ki_word,
                   keyVars, overflow_checks, notKeyIdx>>

\* Keys::get_idx(&self, index, idx) on one of the orderings
KeysGetIdx ==
    /\ new_res = "Ok"
    /\ ki_op = "none"
    /\ ki_op' = "get_idx"
    /\ \E j \in 1..4, i \in 0..3 :
          /\ ki_which' = j
          /\ ki_arg' = i
          /\ IF ~OrderingOf(j).some /\ overflow_checks
             THEN ki_res' = "panic" /\ ki_word' = <<>>
             ELSE \E g \in {get_idx(words, OrderingOf(j), i)} :
                     /\ ki_res' = g.res
                     /\ ki_word' = IF g.res = "Ok"
                                   THEN get_word_span(words,
                                            KeyIndex_get(OrderingOf(j), i).v).word
                                   ELSE <<>>
    /\ UNCHANGED <<idx_file, file_end, index_len, index_suffix, index_d, new_res,
                   keyVars, overflow_checks, notKeyIdx>>

----------------------------------------------------------------------------
(* media.rs: the Media facade over an Rsc or an Nrsc, built on first use.  *)
(* The filesystem is an input of every call: whether index.nidx exists,    *)
(* which filesystem operation (if any) fails, what the directory holds.    *)
(* A constructor or a fetch is the sequence of its filesystem operations,  *)
(* each with the error its call site maps a failure to.                    *)

RSC_NAME == "audio"
MediaPath == <<"contents", RSC_NAME>>

Step(o, e) == [op |-> o, err |-> e]
Passed == [res |-> "Ok", op |-> "none"]

\* The outcome of running the filesystem operations `steps` in order when
\* the operation `fail` fails: the error of its call site, and the operation.
RunSteps(steps, fail) ==
    IF \E i \in DOMAIN steps : steps[i].op = fail
    THEN [res |-> (CHOOSE st \in {steps[i] : i \in DOMAIN steps} : st.op = fail).err,
          op |-> fail]
    ELSE Passed

\* Then(r, next): the `?` operator
Then(r, next) == IF r.res = "Ok" THEN next ELSE r

\* Nrsc::files / Rsc::files: list the directory, stat and open each
\* numbered file, then require the sequence numbers to be gapless.
DirSteps(has_files) ==
    <<Step("read_dir", "IOError"), Step("dir_entry", "IOError")>> \o
    (IF has_files
     THEN <<Step("entry_metadata", "IOError"), Step("entry_open", "IOError")>>
     ELSE <<>>)
Nrsc_files(fail, has_files, shape) ==
    Then(RunSteps(DirSteps(has_files), fail),
         IF has_files /\ shape = "gap"
         THEN [res |-> "MissingResourceFile", op |-> "none"] ELSE Passed)
Rsc_files(fail, has_files, shape) ==
    Then(RunSteps(DirSteps(has_files), fail),
         IF has_files /\ shape = "gap"
         THEN [res |-> "MissingResourceFile", op |-> "none"] ELSE Passed)

\* NrscIndex::new: open index.nidx, read the record count, stat, reserve
\* file_size - idx_expected_size bytes (a file shorter than its record
\* count says makes the subtraction, or the reservation, panic), read the
\* records, read the ids.
NrscIndex_new(fail, shape) ==
    Then(RunSteps(<<Step("idx_open", "FopenError"),
                    Step("idx_read_len", "IOError"),
                    Step("idx_metadata", "IOError")>>, fail),
         IF shape = "short" THEN [res |-> "panic", op |-> "none"]
         ELSE RunSteps(<<Step("idx_read_records", "IOError"),
                         Step("idx_read_ids", "IOError")>>, fail))

\* Nrsc::new
Nrsc_new(fail, has_files, shape) ==
    Then(Nrsc_files(fail, has_files, shape), NrscIndex_new(fail, shape))

\* RscIndex::load_idx: no .idx file is no index; else open, read the count,
\* seek, stat, compare the size, read the records.
load_idx(fail, shape, idx_exists) ==
    IF ~idx_exists THEN Passed
    ELSE Then(RunSteps(<<Step("idx_open", "IOError"),
                         Step("idx_read_len", "IOError"),
                         Step("idx_seek", "IOError"),
                         Step("idx_metadata", "IOError")>>, fail),
              IF shape = "short" THEN [res |-> "IncorrectStreamLength", op |-> "none"]
              ELSE RunSteps(<<Step("idx_read_records", "IOError")>>, fail))

\* RscIndex::load_map
load_map(fail, shape) ==
    Then(RunSteps(<<Step("map_open", "IOError"),
                    Step("map_seek", "IOError"),
                    Step("map_read_len", "IOError"),
                    Step("map_metadata", "IOError")>>, fail),
         IF shape = "short" THEN [res |-> "IncorrectStreamLength", op |-> "none"]
         ELSE RunSteps(<<Step("map_read_records", "IOError")>>, fail))

\* RscIndex::new
RscIndex_new(fail, shape, idx_exists) ==
    Then(load_idx(fail, shape, idx_exists), load_map(fail, shape))

\* Rsc::new
Rsc_new(fail, has_files, shape, idx_exists) ==
    Then(Rsc_files(fail, has_files, shape), RscIndex_new(fail, shape, idx_exists))

\* The inputs of a call that describe the filesystem and the stored data.
FsOps ==
    {"none", "read_dir", "dir_entry", "entry_metadata", "entry_open",
     "idx_open", "idx_read_len", "idx_seek", "idx_metadata", "idx_read_records",
     "idx_read_ids", "map_open", "map_seek", "map_read_len", "map_metadata",
     "map_read_records", "item_seek", "item_read_len", "item_read"}
Shapes == {"ok", "gap", "short"}
Worlds(fail) ==
    [exists : BOOLEAN, fail : {fail}, has_files : BOOLEAN, shape : Shapes,
     idx_exists : BOOLEAN]
Lookups == {"Ok", "NotFound", "InvalidIndex"}
Decodings == {"Ok", "ZlibError", "IncorrectStreamLength", "InvalidAudioFormat"}

\* self.res.is_none()
needs_init_always(res) == TRUE
needs_init(res) == res = "None"

\* self.path.push(name); self.path.pop(), which removes the last component
\* (the mutant leaves it on the path).
Push(path, name) == Append(path, name)
PopNothing(path) == path
Pop(path) == IF path = <<>> THEN path ELSE SubSeq(path, 1, Len(path) - 1)

\* Media::init: what it leaves in res, what it returns, the failed
\* filesystem operation, whether a backing resource was constructed.
BuildWith(w) ==
    IF w.exists THEN Nrsc_new(w.fail, w.has_files, w.shape)
    ELSE Rsc_new(w.fail, w.has_files, w.shape, w.idx_exists)
Constructed(res, path, exists, b) ==
    [res |-> IF b.res = "Ok" THEN (IF exists THEN "Nrsc" ELSE "Rsc") ELSE res,
     path |-> Pop(Push(path, "index.nidx")),
     ret |-> b.res, op |-> b.op,
     init |-> IF b.res = "Ok" THEN "Ok" ELSE "Err",
     built |-> IF b.res = "Ok" THEN 1 ELSE 0,
     probed |-> TRUE, exists |-> exists]
Media_init(res, path, w) ==
    IF needs_init(res)
    THEN Constructed(res, path, w.exists, BuildWith(w))
    ELSE [res |-> res, path |-> path, ret |-> "Ok", op |-> "none",
          init |-> "skipped", built |-> 0, probed |-> FALSE, exists |-> FALSE]

\* Rsc::get / Rsc::get_by_idx: the index lookup, then get_by_map, which
\* loads the block unless it is the one in contents_buf.
Rsc_fetch(lookup, hit, fail, decode) ==
    IF lookup # "Ok" THEN [res |-> lookup, op |-> "none", loaded |-> FALSE]
    ELSE IF hit THEN [res |-> "Ok", op |-> "none", loaded |-> FALSE]
    ELSE IF RunSteps(<<Step("item_seek", "IOError"),
                       Step("item_read_len", "IOError"),
                       Step("item_read", "IOError")>>, fail).res # "Ok"
    THEN [res |-> "IOError", op |-> fail, loaded |-> FALSE]
    ELSE [res |-> IF decode = "InvalidAudioFormat" THEN "Ok" ELSE decode,
          op |-> "none", loaded |-> TRUE]

\* Nrsc::get / Nrsc::get_by_idx: the index lookup, then get_by_nidx_rec
Nrsc_fetch(lookup, fail, decode) ==
    IF lookup # "Ok" THEN [res |-> lookup, op |-> "none", loaded |-> FALSE]
    ELSE IF RunSteps(<<Step("item_seek", "IOError"),
                       Step("item_read", "IOError")>>, fail).res # "Ok"
    THEN [res |-> "IOError", op |-> fail, loaded |-> FALSE]
    ELSE [res |-> decode, op |-> "none", loaded |-> FALSE]

\* id.parse::<u32>(): a non-empty string of decimal digits
Digits == {"0", "1"}
MediaIds == {<<>>, <<"1">>, <<"a">>, <<"1", "0">>, <<"1", "a">>}
ParsesAsU32(s) == s # <<>> /\ \A i \in DOMAIN s : s[i] \in Digits

MediaInit0 ==
    /\ media_res = "None"
    /\ media_path = MediaPath
    /\ media_built = 0
    /\ media_probe = FALSE
    /\ media_loaded = FALSE
    /\ media_op = "none"
    /\ media_init = "none"
    /\ media_ret = "none"
    /\ media_failed = "none"
    /\ media_calls = 0

MediaIdle ==
    /\ media_res = "idle"
    /\ media_path = <<>>
    /\ media_built = 0
    /\ media_probe = FALSE
    /\ media_loaded = FALSE
    /\ media_op = "idle"
    /\ media_init = "idle"
    /\ media_ret = "idle"
    /\ media_failed = "none"
    /\ media_calls = 0

\* What init can do in a call in which the filesystem operation `fail`
\* fails, and what the rest of a get or a get_by_idx can return then.
Inits(fail) == {Media_init(media_res, media_path, w) : w \in Worlds(fail)}
NoFetch == [res |-> "Ok", op |-> "none", loaded |-> FALSE]
Fetches(i, fail) ==
    IF i.ret # "Ok" THEN {NoFetch}
    ELSE IF i.res = "Rsc"
    THEN {Rsc_fetch(lookup, media_loaded /\ same_block, fail, decode) :
             lookup \in Lookups, same_block \in BOOLEAN, decode \in Decodings}
    ELSE {Nrsc_fetch(lookup, fail, decode) : lookup \in Lookups, decode \in Decodings}

\* A call of the facade: init first, then (if init returned Ok) the rest of
\* the call, given by what it returns on either variant.
MediaCall(op, i, r) ==
    /\ media_ret \notin {"idle", "panic"}
    /\ media_calls < MaxMediaCalls
    /\ media_calls' = media_calls + 1
    /\ media_op' = op
    /\ media_res' = i.res
    /\ media_path' = i.path
    /\ media_built' = media_built + i.built
    /\ media_probe' = IF i.probed THEN i.exists ELSE media_probe
    /\ media_init' = i.init
    /\ media_ret' = IF i.ret # "Ok" THEN i.ret ELSE r.res
    /\ media_failed' = IF i.ret # "Ok" THEN i.op ELSE r.op
    /\ media_loaded' = IF i.ret = "Ok" /\ r.loaded THEN TRUE ELSE media_loaded
    /\ UNCHANGED notMedia

\* Media::init
MediaInit ==
    \E fail \in FsOps : \E i \in Inits(fail) : MediaCall("init", i, NoFetch)

\* Media::get
MediaGet ==
    \E fail \in FsOps, parses \in {ParsesAsU32(m) : m \in MediaIds} :
        \E i \in Inits(fail) :
            \E r \in (IF i.ret = "Ok" /\ i.res = "Rsc" /\ ~parses
                      THEN {[res |-> "InvalidIndex", op |-> "none", loaded |-> FALSE]}
                      ELSE Fetches(i, fail)) :
                MediaCall("get", i, r)

\* Media::get_by_idx
MediaGetByIdx ==
    \E fail \in FsOps :
        \E i \in Inits(fail) : \E r \in Fetches(i, fail) : MediaCall("get_by_idx", i, r)

\* Media::idx_iter
MediaIdxIter ==
    \E fail \in FsOps : \E i \in Inits(fail) : MediaCall("idx_iter", i, NoFetch)

----------------------------------------------------------------------------
(* rsc.rs: cmp_range on its own, over every number and every range         *)
(* start..end with start <= end up to MaxRangeEnd.                         *)

CmpInit ==
    /\ cr_num \in 0..MaxRangeEnd
    /\ cr_end \in 0..MaxRangeEnd
    /\ cr_start \in 0..cr_end
    /\ cr_out = "none"

CmpIdle ==
    /\ cr_num = 0
    /\ cr_start = 0
    /\ cr_end = 0
    /\ cr_out = "idle"

\* cmp_range(num, start..end)
CmpRange ==
    /\ cr_out = "none"
    /\ cr_out' = cmp_range(cr_num, cr_start, cr_end)
    /\ UNCHANGED <<cr_num, cr_start, cr_end>>
    /\ UNCHANGED notCmp

----------------------------------------------------------------------------
(* resource/rsc.rs: Rsc::get_by_idx over an Rsc with or without an item    *)
(* index.  The bytes come from get_by_map on the record found; what that   *)
(* read gives (the bytes, or its error) is an input here, the block cache  *)
(* has its own specification.                                              *)

\* idx_rec.map_idx.us() != idx, negated; the mutant drops the comparison.
MapIdxUnchecked(idx_rec, i) == TRUE
MapIdxMatches(idx_rec, i) == idx_rec.map_idx = i

\* RscIndex::get_by_idx(&self, idx)
RscIndex_get_by_idx(index, mp, i) ==
    IF index.some /\ i >= Len(index.v)
    THEN [res |-> "InvalidIndex", id |-> 0, rec |-> NoRecord]
    ELSE IF index.some /\ ~MapIdxMatches(index.v[i + 1], i)
    THEN [res |-> "InvalidIndex", id |-> 0, rec |-> NoRecord]
    ELSE IF i >= Len(mp)
    THEN [res |-> "InvalidIndex", id |-> 0, rec |-> NoRecord]
    ELSE [res |-> "Ok",
          id |-> IF index.some THEN index.v[i + 1].item_id ELSE i,
          rec |-> mp[i + 1]]

\* Rsc::len
Rsc_len(mp) == Len(mp)

\* Rsc::get_by_idx(&mut self, idx): g is what get_by_map returns for the
\* record.
Rsc_get_by_idx(index, mp, i, g) ==
    IF RscIndex_get_by_idx(index, mp, i).res # "Ok"
    THEN RscIndex_get_by_idx(index, mp, i)
    ELSE IF g # "Ok" THEN [res |-> g, id |-> 0, rec |-> NoRecord]
    ELSE RscIndex_get_by_idx(index, mp, i)

FetchOutcomes == {"Ok", "IOError"}

ByIdxInit ==
    /\ idx \in [some : {TRUE}, v : IdxLists] \cup {[some |-> FALSE, v |-> <<>>]}
    /\ map \in {MapOfLen(n) : n \in 0..MaxMapLen}
    /\ id = 0
    /\ get_res = "idle"
    /\ get_rec = NoRecord
    /\ bi_idx \in 0..(MaxMapLen + 1)
    /\ bi_fetch \in FetchOutcomes
    /\ bi_res = "init"
    /\ bi_id = 0
    /\ bi_rec = NoRecord

ByIdxIdle ==
    /\ bi_idx = 0
    /\ bi_fetch = "idle"
    /\ bi_res = "idle"
    /\ bi_id = 0
    /\ bi_rec = NoRecord

\* Rsc::get_by_idx(idx)
GetByIdx ==
    /\ bi_res = "init"
    /\ \E r \in {Rsc_get_by_idx(idx, map, bi_idx, bi_fetch)} :
          /\ bi_res' = r.res
          /\ bi_id' = r.id
          /\ bi_rec' = r.rec
    /\ UNCHANGED <<bi_idx, bi_fetch, rscVars, notByIdx>>

----------------------------------------------------------------------------
(* key.rs: IndexHeader::validate on its own, over every header of a magic  *)
(* word and four offsets up to MaxHdrOffset and every file_end.            *)

HdrInit ==
    /\ hdr \in [1..IndexHeaderWords -> 0..MaxHdrOffset] \cup
               {[h EXCEPT ![1] = IndexMagic] :
                   h \in [1..IndexHeaderWords -> 0..MaxHdrOffset]}
    /\ hdr_end \in 0..MaxHdrOffset
    /\ hdr_res = "init"

HdrIdle ==
    /\ hdr = <<>>
    /\ hdr_end = 0
    /\ hdr_res = "idle"

\* ihdr.validate(file_end)
Validate ==
    /\ hdr_res = "init"
    /\ hdr_res' = (IF validate(hdr, hdr_end) THEN "Ok" ELSE "KeyIndexHeaderValidate")
    /\ UNCHANGED <<hdr, hdr_end, notHdr>>

----------------------------------------------------------------------------
(* Specifications *)

InitKana == KanaInit /\ PagesIdle /\ SegIdle /\ RscIdle /\ KeysIdle /\ InflateIdle /\ CacheIdle /\ NrscIdle /\ NrscDataIdle /\ KeyIdxIdle /\ MediaIdle /\ CmpIdle /\ ByIdxIdle /\ HdrIdle /\ overflow_checks = TRUE
NextKana == ToKatakana
SpecKana == InitKana /\ [][NextKana]_vars

InitPages == PagesInit /\ KanaIdle /\ SegIdle /\ RscIdle /\ KeysIdle /\ InflateIdle /\ CacheIdle /\ NrscIdle /\ NrscDataIdle /\ KeyIdxIdle /\ MediaIdle /\ CmpIdle /\ ByIdxIdle /\ HdrIdle /\ overflow_checks \in BOOLEAN
NextPages == PageIterNew \/ PageIterNext
SpecPages == InitPages /\ [][NextPages]_vars

InitSeg == SegInit /\ KanaIdle /\ PagesIdle /\ RscIdle /\ KeysIdle /\ InflateIdle /\ CacheIdle /\ NrscIdle /\ NrscDataIdle /\ KeyIdxIdle /\ MediaIdle /\ CmpIdle /\ ByIdxIdle /\ HdrIdle /\ overflow_checks = TRUE
NextSeg == RscFiles \/ NrscFiles \/ FileOffset
SpecSeg == InitSeg /\ [][NextSeg]_vars

InitRscIndex == RscInit /\ KanaIdle /\ PagesIdle /\ SegIdle /\ KeysIdle /\ InflateIdle /\ CacheIdle /\ NrscIdle /\ NrscDataIdle /\ KeyIdxIdle /\ MediaIdle /\ CmpIdle /\ ByIdxIdle /\ HdrIdle /\ overflow_checks = TRUE
NextRscIndex == GetById
SpecRscIndex == InitRscIndex /\ [][NextRscIndex]_vars

InitKeys ==
    KeysInit /\ KanaIdle /\ PagesIdle /\ SegIdle /\ RscIdle /\ InflateIdle /\ CacheIdle /\ NrscIdle /\ NrscDataIdle /\ KeyIdxIdle /\ MediaIdle /\ CmpIdle /\ ByIdxIdle /\ HdrIdle /\ overflow_checks \in BOOLEAN
NextKeys == SearchStart \/ SearchProbe
SpecKeys == InitKeys /\ [][NextKeys]_vars

InitInflate ==
    InflateInit /\ KanaIdle /\ PagesIdle /\ SegIdle /\ RscIdle /\ KeysIdle /\ CacheIdle /\ NrscIdle /\ NrscIdle /\ NrscDataIdle /\ NrscDataIdle /\ KeyIdxIdle /\ KeyIdxIdle /\ MediaIdle /\ CmpIdle /\ ByIdxIdle /\ HdrIdle /\ overflow_checks = TRUE
NextInflate == Decompress
SpecInflate == InitInflate /\ [][NextInflate]_vars

InitRscCache ==
    CacheInit /\ KanaIdle /\ PagesIdle /\ SegIdle /\ RscIdle /\ KeysIdle /\ InflateIdle /\ NrscIdle /\ NrscIdle /\ NrscDataIdle /\ NrscDataIdle /\ KeyIdxIdle /\ KeyIdxIdle /\ MediaIdle /\ CmpIdle /\ ByIdxIdle /\ HdrIdle /\ overflow_checks = TRUE
NextRscCache == RscGet \/ RscGetByIdx
SpecRscCache == InitRscCache /\ [][NextRscCache]_vars

InitNrscIndex ==
    NrscInit /\ KanaIdle /\ PagesIdle /\ SegIdle /\ RscIdle /\ KeysIdle /\ InflateIdle /\ CacheIdle /\ NrscDataIdle /\ NrscDataIdle /\ KeyIdxIdle /\ KeyIdxIdle /\ MediaIdle /\ CmpIdle /\ ByIdxIdle /\ HdrIdle /\ overflow_checks = TRUE
NextNrscIndex == GetIdAt \/ NrscGetById
SpecNrscIndex == InitNrscIndex /\ [][NextNrscIndex]_vars

InitNrscData ==
    NrscDataInit /\ KanaIdle /\ PagesIdle /\ SegIdle /\ RscIdle /\ KeysIdle /\ InflateIdle /\ CacheIdle /\ KeyIdxIdle /\ KeyIdxIdle /\ MediaIdle /\ CmpIdle /\ ByIdxIdle /\ HdrIdle /\ overflow_checks = TRUE
NextNrscData == NrscGet \/ NrscGetByIdx
SpecNrscData == InitNrscData /\ [][NextNrscData]_vars

InitKeyIndexes ==
    KeyIdxInit /\ KanaIdle /\ PagesIdle /\ SegIdle /\ RscIdle /\ InflateIdle /\ CacheIdle /\ NrscIdle /\ NrscDataIdle /\ MediaIdle /\ CmpIdle /\ ByIdxIdle /\ HdrIdle /\ overflow_checks \in BOOLEAN
NextKeyIndexes == KeysNew \/ KeyIndexLen \/ KeysGetIdx \/ SearchStart \/ SearchProbe
SpecKeyIndexes == InitKeyIndexes /\ [][NextKeyIndexes]_vars

InitMedia ==
    MediaInit0 /\ KanaIdle /\ PagesIdle /\ SegIdle /\ RscIdle /\ KeysIdle /\ InflateIdle /\ CacheIdle /\ NrscIdle /\ NrscDataIdle /\ KeyIdxIdle /\ CmpIdle /\ ByIdxIdle /\ HdrIdle /\ overflow_checks \in BOOLEAN
NextMedia == MediaInit \/ MediaGet \/ MediaGetByIdx \/ MediaIdxIter
SpecMedia == InitMedia /\ [][NextMedia]_vars

InitCmpRange ==
    CmpInit /\ KanaIdle /\ PagesIdle /\ SegIdle /\ RscIdle /\ KeysIdle /\ InflateIdle /\ CacheIdle /\ NrscIdle /\ NrscDataIdle /\ KeyIdxIdle /\ MediaIdle /\ ByIdxIdle /\ HdrIdle /\ overflow_checks \in BOOLEAN
NextCmpRange == CmpRange
SpecCmpRange == InitCmpRange /\ [][NextCmpRange]_vars

InitRscByIdx ==
    ByIdxInit /\ KanaIdle /\ PagesIdle /\ SegIdle /\ KeysIdle /\ InflateIdle /\ CacheIdle /\ NrscIdle /\ NrscDataIdle /\ KeyIdxIdle /\ MediaIdle /\ CmpIdle /\ HdrIdle /\ overflow_checks = FALSE
NextRscByIdx == GetByIdx
SpecRscByIdx == InitRscByIdx /\ [][NextRscByIdx]_vars

InitValidate ==
    HdrInit /\ KanaIdle /\ PagesIdle /\ SegIdle /\ RscIdle /\ KeysIdle /\ InflateIdle /\ CacheIdle /\ NrscIdle /\ NrscDataIdle /\ KeyIdxIdle /\ MediaIdle /\ CmpIdle /\ ByIdxIdle /\ overflow_checks = FALSE
NextValidate == Validate
SpecValidate == InitValidate /\ [][NextValidate]_vars

----------------------------------------------------------------------------
(* Properties: to_katakana *)

\* C3: to_katakana maps its input code point by code point: a code point in
\* U+3041..U+3093 becomes itself + 0x60, any other is unchanged, so the
\* output has as many code points as the input.
C3_FoldIsPointwise ==
    kana_pc = "done" =>
        /\ Len(kana_output) = Len(kana_input)
        /\ \A i \in 1..Len(kana_input) :
              kana_output[i] = IF kana_input[i] \in 12353..12435
                               THEN kana_input[i] + 96
                               ELSE kana_input[i]

\* A hiragana behind a leading non-kana character has been folded, and a
\* katakana in the same input has been kept.
C3_Witness ==
    /\ kana_pc = "done"
    /\ kana_input = <<97, 12435, 12450>>
    /\ kana_output = <<97, 12531, 12450>>

----------------------------------------------------------------------------
(* Properties: PageIter.  The Run* operators read a page-reference run by *)
(* the format's table of tags, independently of PageIter's code.          *)

\* Bytes a tuple takes by the format's table (tag included), 0: no such tag.
RunTupleLen(tag) ==
    IF tag = 1 THEN 2
    ELSE IF tag \in {2, 17} THEN 3
    ELSE IF tag \in {4, 18} THEN 4
    ELSE 0

\* The (page, item) a tuple stands for by the format's table.
RunTupleValue(t) ==
    IF t[1] = 1 THEN [page |-> t[2], item |-> 0]
    ELSE IF t[1] = 2 THEN [page |-> t[2] * 256 + t[3], item |-> 0]
    ELSE IF t[1] = 4 THEN [page |-> t[2] * 65536 + t[3] * 256 + t[4], item |-> 0]
    ELSE IF t[1] = 17 THEN [page |-> t[2], item |-> t[3]]
    ELSE [page |-> t[2] * 256 + t[3], item |-> t[4]]

\* Is one of the first n tuples of body of an unknown tag, or cut short?
RECURSIVE RunCorrupt(_, _)
RunCorrupt(body, n) ==
    /\ n > 0
    /\ \/ body = <<>>
       \/ RunTupleLen(body[1]) = 0
       \/ Len(body) < RunTupleLen(body[1])
       \/ RunCorrupt(From(body, RunTupleLen(body[1])), n - 1)

\* The bytes the first n tuples of a sound run take.
RECURSIVE RunLen(_, _)
RunLen(body, n) ==
    IF n = 0 \/ body = <<>> THEN 0
    ELSE RunTupleLen(body[1]) + RunLen(From(body, RunTupleLen(body[1])), n - 1)

\* The values of the first n tuples of a sound run, in stored order.
RECURSIVE RunValues(_, _)
RunValues(body, n) ==
    IF n = 0 \/ body = <<>> THEN <<>>
    ELSE <<RunTupleValue(body)>> \o
         RunValues(From(body, RunTupleLen(body[1])), n - 1)

RunCount == pages[1] + 256 * pages[2]
RunBody == From(pages, 2)

\* C4: for a run PageIter::new accepts, next() yields exactly `count` items
\* and then None, consumes exactly the measured bytes, never takes the
\* unreachable!() branch and never takes the count field below zero.
C4_IterYieldsCount ==
    iter_res = "Ok" =>
        /\ last_next \notin {"unreachable", "overflow_panic"}
        /\ count >= 0
        /\ count + Len(yielded) = RunCount
        /\ span = SubSeq(RunBody, RunLen(RunBody, Len(yielded)) + 1,
                         RunLen(RunBody, RunCount))
        /\ last_next = "None" => (Len(yielded) = RunCount /\ span = <<>>)

\* A run of two tuples followed by other bytes has been read to its None.
C4_Witness ==
    /\ iter_res = "Ok"
    /\ last_next = "None"
    /\ Len(yielded) = 2
    /\ Len(pages) > 2 + RunLen(RunBody, 2)

\* C5: each tuple decodes by its tag as the format's table says (bytes taken
\* and big-endian page number), and the tuples come out in stored order.
C5_DecodeByTag ==
    iter_res = "Ok" =>
        /\ yielded = SubSeq(RunValues(RunBody, RunCount), 1, Len(yielded))
        /\ Len(span) + RunLen(RunBody, Len(yielded)) = RunLen(RunBody, RunCount)

\* A tag-18 tuple 12 01 02 03 has come out as page 0x0102, item 3.
C5_Witness ==
    /\ iter_res = "Ok"
    /\ pages = <<1, 0, 18, 1, 2, 3>>
    /\ yielded = <<[page |-> 258, item |-> 3]>>

\* C6: PageIter::new on a run with an unknown tag or a cut-short tuple among
\* its first `count` tuples fails with the error value InvalidIndex, whatever
\* the length of the buffer that remains.
C6_CorruptRunIsInvalidIndex ==
    (iter_res # "init" /\ Len(pages) >= 2 /\ RunCorrupt(RunBody, RunCount))
        => iter_res = "InvalidIndex"

----------------------------------------------------------------------------
(* Properties: the segment-file set *)

\* The segments (1-based positions in files) whose half-open range
\* [offset, offset + len) holds the global offset g.
SegmentsHolding(g) ==
    {i \in 1..Len(files) : files[i].offset <= g /\ g < files[i].offset + files[i].len}

\* C7: file_offset over a segment set with cumulative offsets gives
\* Ok((file, local)) exactly when some segment's half-open range holds the
\* global offset; the file is then that segment's and offset + local is the
\* global offset; every other offset gives Err(InvalidIndex).
C7_LocateIffInRange ==
    loc_res # "none" =>
        /\ loc_res = "Ok" <=> SegmentsHolding(loc_offset) # {}
        /\ loc_res = "Ok" =>
              /\ loc_file + 1 \in SegmentsHolding(loc_offset)
              /\ files[loc_file + 1].offset + loc_local = loc_offset
        /\ SegmentsHolding(loc_offset) = {} => loc_res = "InvalidIndex"

\* An offset inside the second of three segments has been located, past the
\* start of that segment.
C7_Witness ==
    /\ loc_res = "Ok"
    /\ Len(files) = 3
    /\ loc_file = 1
    /\ loc_local = 1

\* The matched sequence numbers are first, first + 1, ... each exactly once.
DenseFrom(entries, first) ==
    /\ {entries[i].seqnum : i \in 1..Len(entries)} =
           {first + k : k \in 0..(Len(entries) - 1)}

FirstSeqnumOf(kind) == IF kind = "rsc" THEN 1 ELSE 0

\* The segments are those of the directory, sorted by sequence number from
\* `first` on without a gap, each at the sum of the lengths before it.
SegmentSetSound(first) ==
    /\ Len(files) = Len(dir_entries)
    /\ \A i \in 1..Len(files) :
          /\ files[i].seqnum = first + i - 1
          /\ files[i].offset = TotalLen(files, i - 1)
          /\ \E j \in 1..Len(dir_entries) :
                /\ dir_entries[j].seqnum = files[i].seqnum
                /\ dir_entries[j].len = files[i].len

\* C8 as stated: construction either fails with MissingResourceFile or
\* yields the sorted, dense, cumulative segment set, and it fails whenever
\* the sequence numbers have a gap, a duplicate or the wrong start.
C8_MissingOrSound ==
    files_res # "init" =>
        /\ \/ files_res = "MissingResourceFile"
           \/ files_res = "Ok" /\ SegmentSetSound(FirstSeqnumOf(files_kind))
        /\ ~DenseFrom(dir_entries, FirstSeqnumOf(files_kind)) => files_res # "Ok"

\* C8 amended: construction fails with IOError (a filesystem operation
\* failed) or with MissingResourceFile, or yields the sorted, dense,
\* cumulative segment set; with sequence numbers that have a gap, a duplicate
\* or the wrong start it never succeeds, and without such a defect it never
\* reports MissingResourceFile.
C8_IoErrorMissingOrSound ==
    files_res # "init" =>
        /\ \/ files_res = "IOError"
           \/ files_res = "MissingResourceFile"
           \/ files_res = "Ok" /\ SegmentSetSound(FirstSeqnumOf(files_kind))
        /\ ~DenseFrom(dir_entries, FirstSeqnumOf(files_kind)) => files_res # "Ok"
        /\ DenseFrom(dir_entries, FirstSeqnumOf(files_kind))
              => files_res # "MissingResourceFile"

\* Three RSC segments listed out of order have been sorted and given their
\* cumulative offsets.
C8_Witness ==
    /\ files_res = "Ok"
    /\ files_kind = "rsc"
    /\ Len(files) = 3
    /\ dir_entries[1].seqnum = 3
    /\ files[3].offset = 3

----------------------------------------------------------------------------
(* Properties: RscIndex *)

\* The records of the item index whose item_id is the id asked for.
Matching == {k \in 1..Len(idx.v) : idx.v[k].item_id = id}

\* C9: with an item index present, for an id that is the item_id of a record
\* r, get_by_id gives map[r.map_idx], on every resolution path (stated for
\* the records whose map_idx is inside the map array).
C9_GetByIdFollowsMapIdx ==
    (get_res # "init" /\ idx.some) =>
        \A k \in Matching :
            idx.v[k].map_idx < Len(map) =>
                /\ get_res = "Ok"
                /\ get_rec = map[idx.v[k].map_idx + 1]

\* C10: with an item index present, get_by_id gives Err(NotFound) exactly
\* when no record of the index has the id asked for.
C10_NotFoundIffAbsent ==
    (get_res # "init" /\ idx.some) =>
        (get_res = "NotFound" <=> Matching = {})

\* An id above every stored item_id has been looked up in an index of
\* several records and reported NotFound.
C10_Witness ==
    /\ get_res = "NotFound"
    /\ idx.some
    /\ Len(idx.v) >= 2
    /\ \A k \in 1..Len(idx.v) : idx.v[k].item_id < id

----------------------------------------------------------------------------
(* Properties: Keys::search_exact *)

\* The keystore as its file format describes it: the number of keys, the
\* i-th key (from 0) of the prefix index, its pages_offset, and the query
\* after the fold of hiragana onto katakana.
KeyCount == index_prefix.v[1]
StoredKey(i) == UpToNull(From(words, index_prefix.v[i + 2] + 5))
StoredPagesOffset(i) == LE32Read(words, index_prefix.v[i + 2])
FoldedQuery ==
    Utf8Str([i \in 1..Len(target_key) |->
                IF target_key[i] \in 12353..12435 THEN target_key[i] + 96
                ELSE target_key[i]])
QueryIsStored == \E i \in 0..(KeyCount - 1) : StoredKey(i) = FoldedQuery
SearchReturned == search_res \notin {"idle", "init", "running"}

\* C1: over a loaded, strictly ascending prefix index, search_exact(k)
\* returns Ok((i, iter)) exactly when the folded k is one of the stored keys;
\* then the key at position i is the folded k, and iter is the page iterator
\* over the run at that key's pages_offset.
C1_OkIffStored ==
    (SearchReturned /\ index_prefix.some) =>
        /\ search_res = "Ok" <=> QueryIsStored
        /\ search_res = "Ok" =>
              /\ found.idx < KeyCount
              /\ StoredKey(found.idx) = FoldedQuery
              /\ LET it == PageIter_new(From(words, StoredPagesOffset(found.idx)))
                 IN  it.res = "Ok" /\ found.count = it.count /\ found.span = it.span

\* C2: over a loaded prefix index of any size, a query whose folded form is
\* no stored key makes search_exact return Err(NotFound), wherever the query
\* would sort to.
C2_AbsentIsNotFound ==
    (SearchReturned /\ index_prefix.some /\ ~QueryIsStored) => search_res = "NotFound"

----------------------------------------------------------------------------
(* Properties: an RSC without item index *)

\* C11: without an item index, get(id) reads the map at position id, and
\* every id at or past the end of the map gives Err(InvalidIndex).
C11_NoIndexOutOfMapIsInvalidIndex ==
    (get_res \notin {"idle", "init"} /\ ~idx.some) =>
        IF id < Len(map)
        THEN get_res = "Ok" /\ get_rec = map[id + 1]
        ELSE get_res = "InvalidIndex"

----------------------------------------------------------------------------
(* Properties: decompress *)

RECURSIVE SumOf(_, _)
SumOf(rounds, field) ==
    IF rounds = <<>> THEN 0 ELSE Head(rounds)[field] + SumOf(Tail(rounds), field)

LastStatus == z_rounds[Len(z_rounds)].status

\* C13: decompress returns Ok(n) only after the engine reported Done with
\* all input consumed over the rounds, n being all bytes written over the
\* rounds; Done with input left over is Err(IncorrectStreamLength); a status
\* other than Done and HasMoreOutput is Err(ZlibError).
C13_DecompressResult ==
    z_res \notin {"idle", "init"} =>
        /\ z_rounds # <<>>
        /\ z_res = "Ok" =>
              /\ LastStatus = "Done"
              /\ SumOf(z_rounds, "n_in") = z_stream.in_len
              /\ z_n = SumOf(z_rounds, "n_out")
        /\ (LastStatus = "Done" /\ SumOf(z_rounds, "n_in") # z_stream.in_len)
              => z_res = "IncorrectStreamLength"
        /\ LastStatus \notin {"Done", "HasMoreOutput"} => z_res = "ZlibError"
        /\ \A k \in 1..(Len(z_rounds) - 1) : z_rounds[k].status = "HasMoreOutput"

\* A stream of three bytes, inflated into an empty buffer over several
\* rounds, all input consumed.
C13_Witness ==
    /\ z_res = "Ok"
    /\ Len(z_rounds) > 2
    /\ z_n = 3
    /\ z_stream.in_len = 2

----------------------------------------------------------------------------
(* Properties: the block cache of Rsc *)

\* The block stored at zoffset, if it inflates: its stream ends with Done
\* and all input consumed.
BlockAt(zoffset) == disk[file_offset(rsc_files, zoffset).file_idx + 1]
BlockIsSound(zoffset) ==
    /\ file_offset(rsc_files, zoffset).res = "Ok"
    /\ BlockAt(zoffset).ending = "Done"
    /\ BlockAt(zoffset).consumed = BlockAt(zoffset).in_len

\* C12: whatever calls came before and however they ended, a call treated
\* as a cache hit finds in contents_buf[..current_len] the inflation of the
\* block at the requested offset, and a successful get returns bytes of
\* that block's inflation at the requested item offset.
C12_HitIsFresh ==
    /\ rsc_hit =>
          /\ BlockIsSound(rsc_req.zoffset)
          /\ current_len <= Len(contents_buf)
          /\ SubSeq(contents_buf, 1, current_len) = BlockAt(rsc_req.zoffset).data
    /\ rsc_res = "Ok" =>
          /\ BlockIsSound(rsc_req.zoffset)
          /\ LET data == BlockAt(rsc_req.zoffset).data
             IN  rsc_out = SubSeq(data, rsc_req.ioffset + 5,
                                  rsc_req.ioffset + 4 + LE32Read(data, rsc_req.ioffset))

----------------------------------------------------------------------------
(* Properties: NrscIndex *)

\* The (0-based) offset into the id table that the last get_id_at named.
TableOffset == n_offset - (NrscRecordSize * Len(nidx) + NrscHeaderSize)

\* C14: for an offset inside the id table, get_id_at returns Ok(id) exactly
\* when the offset is the table's start or follows a null byte and a null
\* follows it, id being the bytes up to that null; any other offset of the
\* table, inside a key or inside one of its characters or at a trailing id
\* without terminator, is Err(InvalidIndex).
C14_IdAtKeyStartOnly ==
    (n_op = "get_id_at" /\ 0 <= TableOffset /\ TableOffset < Len(ids)) =>
        IF /\ TableOffset = 0 \/ ids[TableOffset] = 0
           /\ HasNull(From(ids, TableOffset))
        THEN n_res = "Ok" /\ n_out_id = UpToNull(From(ids, TableOffset))
        ELSE n_res = "InvalidIndex"

\* Is the index valid: ids in byte order, unique, each with its null.
NrscValid == ids = Flatten([i \in 1..Len(nrsc_keys) |-> nrsc_keys[i] \o <<0>>])

\* C15: on a valid index get_by_id is exact lookup: the id of a record
\* gives that record, a string that is no record's id gives Err(NotFound).
C15_ExactLookup ==
    (n_op = "get_by_id" /\ NrscValid) =>
        IF \E k \in 1..Len(nrsc_keys) : nrsc_keys[k] = n_id
        THEN /\ n_res = "Ok"
             /\ \E k \in 1..Len(nrsc_keys) : nrsc_keys[k] = n_id /\ n_out_rec = nidx[k]
             /\ get_id_at(Len(nidx), ids, n_out_rec.id_str_offset).id = n_id
        ELSE n_res = "NotFound"

\* The second of three ids, one with a multi-byte character, is found.
C15_Witness ==
    /\ n_op = "get_by_id"
    /\ NrscValid
    /\ Len(nidx) = 3
    /\ n_id = <<97, 227, 129, 130>>
    /\ n_res = "Ok"
    /\ n_out_rec = nidx[2]

----------------------------------------------------------------------------
(* Properties: Nrsc, reading an item *)

\* The len bytes at file_offset of segment fileseq that record rec names.
RawBytes(rec) ==
    SubSeq(nd_segs[rec.fileseq + 1], rec.file_offset + 1, rec.file_offset + rec.len)

\* C16: reading a record whose format is outside {0, 1} gives
\* Err(InvalidAudioFormat); a record of format 0 read with success gives
\* its len raw bytes at file_offset of segment fileseq, one of format 1 the
\* inflation of those bytes.
C16_FormatDecides ==
    nd_read =>
        /\ n_out_rec.format \notin {0, 1} => n_res = "InvalidAudioFormat"
        /\ (n_out_rec.format = 0 /\ n_res = "Ok") => nd_out = RawBytes(n_out_rec)
        /\ (n_out_rec.format = 1 /\ n_res = "Ok") => nd_out = nd_stream.data

----------------------------------------------------------------------------
(* Properties: the orderings of a keystore *)

\* The offset of ordering j in the index header, and the key the file
\* holds at position i (from 0) of ordering j.
HeaderOffset(j) == idx_file[j + 1]
KeyOfOrdering(j, i) == Utf8Str(<< <<97>>, <<97, 97>>, <<12450>> >>[Order(j)[i + 1]])

\* C17: in a keystore with some of the four index offsets zero, an access
\* to an ordering whose offset is zero (KeyIndex::len, Keys::get_idx,
\* search_exact for the prefix ordering) reports Err(IndexDoesntExist),
\* and get_idx on an ordering whose offset is not zero returns its keys.
C17_AbsentOrderings ==
    (new_res \notin {"init", "idle"} /\ \E j \in 1..4 : HeaderOffset(j) = 0) =>
        /\ new_res = "Ok"
        /\ (ki_op # "none" /\ HeaderOffset(ki_which) = 0) => ki_res = "IndexDoesntExist"
        /\ (ki_op = "get_idx" /\ HeaderOffset(ki_which) # 0 /\ ki_arg < 3) =>
              ki_res = "Ok" /\ ki_word = KeyOfOrdering(ki_which, ki_arg)
        /\ (SearchReturned /\ HeaderOffset(2) = 0) => search_res = "IndexDoesntExist"

----------------------------------------------------------------------------
(* Properties: the Media facade *)

\* C18: the facade is uninitialized or initialized; it becomes initialized
\* only in a call whose init succeeded, as Nrsc iff index.nidx was found
\* by that call's probe and as Rsc otherwise, with exactly one construction;
\* once initialized it keeps its variant and constructs nothing again.
C18_FacadeLifecycle ==
    [][/\ media_res \in {"None", "Rsc", "Nrsc"} => media_res' \in {"None", "Rsc", "Nrsc"}
       /\ media_res \in {"Rsc", "Nrsc"} =>
             /\ media_res' = media_res
             /\ media_built' = media_built
             /\ media_init' = "skipped"
       /\ (media_res = "None" /\ media_res' # "None") =>
             /\ media_init' = "Ok"
             /\ media_res' = (IF media_probe' THEN "Nrsc" ELSE "Rsc")
             /\ media_built' = media_built + 1
       /\ (media_res = "None" /\ media_init' = "Ok") => media_res' # "None"
       /\ (media_res = "None" /\ media_res' = "None") => media_built' = media_built
      ]_vars

C18_Witness ==
    /\ media_res = "Nrsc"
    /\ media_built = 1
    /\ media_init = "skipped"
    /\ media_op = "get"
    /\ media_calls >= 2

\* C19: a call in which a filesystem operation of the resource layer failed
\* (opening, reading, seeking, stat-ing or listing, while the index is
\* loaded, the segments are enumerated or an item is read) returns IOError.
C19_IoFailureIsIOError ==
    media_failed # "none" => media_ret = "IOError"

----------------------------------------------------------------------------
(* Properties: cmp_range *)

\* C20: for every n and every range a..b with a <= b, cmp_range(n, a..b) is
\* Less iff n < a, Equal iff a <= n < b, and Greater iff n >= b; for an
\* empty range (a = b) it is never Equal.
C20_CmpRangeTrichotomy ==
    (cr_out \notin {"none", "idle"} /\ cr_start <= cr_end) =>
        /\ cr_out \in {"Less", "Equal", "Greater"}
        /\ cr_out = "Less" <=> cr_num < cr_start
        /\ cr_out = "Equal" <=> (cr_start <= cr_num /\ cr_num < cr_end)
        /\ cr_out = "Greater" <=> cr_num >= cr_end
        /\ cr_start = cr_end => cr_out # "Equal"

\* The number at the start of an empty range that does not begin at zero has
\* been compared.
C20_Witness ==
    /\ cr_out = "Greater"
    /\ cr_start = cr_end
    /\ cr_num = cr_start
    /\ cr_start > 0

----------------------------------------------------------------------------
(* Properties: RscIndex, the item index against the map array *)

\* The records of the item index whose item_id is the requested id.
MatchingRecords ==
    {k \in 1..Len(idx.v) : idx.v[k].item_id = id}

\* C21: with an item index present, when the record matching the requested
\* id has a map_idx >= map.len(), get_by_id returns Err(IndexMismach),
\* whichever way the record was found, and never indexes the map array out
\* of range.
C21_BadMapIdxIsIndexMismach ==
    (/\ get_res \notin {"init", "idle"}
     /\ idx.some
     /\ \E k \in MatchingRecords : idx.v[k].map_idx >= Len(map)) =>
        get_res = "IndexMismach"

IndexAgrees ==
    idx.some => /\ bi_idx < Len(idx.v)
                /\ idx.v[bi_idx + 1].map_idx = bi_idx

----------------------------------------------------------------------------
(* Properties: the block cache of Rsc, what a read does to it *)

\* C23: a read whose record's zoffset equals current_offset while
\* contents_buf is non-empty does not go through load_contents and leaves
\* contents_buf, current_offset and current_len as they were; every other
\* read goes through load_contents, and when it succeeds current_offset is
\* the requested zoffset and current_len the size of the inflated block.
C23_HitLeavesCacheAlone ==
    [][(rsc_calls' = rsc_calls + 1 /\ rsc_read') =>
          IF contents_buf # <<>> /\ rsc_req'.zoffset = current_offset
          THEN /\ ~rsc_loaded'
               /\ UNCHANGED <<contents_buf, current_offset, current_len>>
          ELSE /\ rsc_loaded'
               /\ rsc_res' = "Ok" =>
                     /\ current_offset' = rsc_req'.zoffset
                     /\ current_len' = Len(BlockAt(rsc_req'.zoffset).data)
                     /\ current_len' <= Len(contents_buf')
      ]_vars

\* The block at offset 10 was loaded, and the last read was of the same
\* block again.
C23_Witness ==
    /\ rsc_calls >= 2
    /\ rsc_res = "Ok"
    /\ rsc_hit
    /\ ~rsc_loaded
    /\ current_offset = 10

----------------------------------------------------------------------------
(* Properties: NrscIndex, the offset 0 and errors during the search *)

\* C24: get_id_at of an id_str_offset of 0 gives the empty id "" and no
\* error.
C24_OffsetZeroIsEmptyId ==
    (n_op = "get_id_at" /\ n_offset = 0) =>
        /\ n_res = "Ok"
        /\ n_out_id = <<>>

\* What get_id_at answered for the records the last get_by_id probed,
\* the successes left out.
ProbedFailures ==
    {get_id_at(Len(nidx), ids, nidx[p + 1].id_str_offset).res :
        p \in {BSearchProbes(NrscCmps(nidx, ids, n_id), 0, Len(nidx))[k] :
                  k \in 1..Len(BSearchProbes(NrscCmps(nidx, ids, n_id), 0, Len(nidx)))}}
    \ {"Ok"}

\* C25: when get_id_at returned an error for a record probed during
\* get_by_id, get_by_id returns that error, whether or not the search found
\* a matching record; it returns neither NotFound nor a record.
C25_ProbeErrorIsReturned ==
    (n_op = "get_by_id" /\ ProbedFailures # {} /\ "panic" \notin ProbedFailures) =>
        n_res \in ProbedFailures

----------------------------------------------------------------------------
(* Properties: IndexHeader::validate *)

\* The offsets of the header that are not zero are in non-decreasing order
\* and none is past the file's end.
OffsetsInOrder ==
    /\ \A i, j \in 2..IndexHeaderWords :
          (i < j /\ hdr[i] # 0 /\ hdr[j] # 0) => hdr[i] <= hdr[j]
    /\ \A i \in 2..IndexHeaderWords : hdr[i] # 0 => hdr[i] <= hdr_end

\* C26: validate returns Ok exactly when the first word is 0x04 and the
\* non-zero offsets among index_a..index_d, in that order, are monotone
\* non-decreasing and each bounded by the file end; else it returns
\* Err(KeyIndexHeaderValidate).
C26_ValidateIffOrdered ==
    hdr_res \notin {"init", "idle"} =>
        /\ hdr_res = "Ok" <=> (hdr[1] = IndexMagic /\ OffsetsInOrder)
        /\ hdr_res # "Ok" => hdr_res = "KeyIndexHeaderValidate"

----------------------------------------------------------------------------
(* Properties: search_exact, its bounds *)

\* The number of keys of the prefix index.
NumKeys == Len(index_prefix.v) - 1

RECURSIVE FloorLog2(_)
FloorLog2(n) == IF n <= 1 THEN 0 ELSE 1 + FloorLog2(n \div 2)

\* C27: during search_exact on an index of N keys every position passed to
\* cmp_key is below N, low and high stay within 0..N with no underflow of
\* `high = mid - 1` or `high - low`, and there are at most
\* floor(log2(N)) + 2 probes.
C27_SearchStaysInBounds ==
    (search_res \notin {"init", "idle", "unloaded"} /\ index_prefix.some /\ NumKeys >= 1) =>
        /\ \A k \in 1..Len(probed) : probed[k] < NumKeys
        /\ 0 <= low /\ high <= NumKeys
        /\ search_res # "panic"
        /\ Len(probed) <= FloorLog2(NumKeys) + 2

----------------------------------------------------------------------------
(* Properties: the block cache of Rsc, the slice returned *)

\* C28: a slice returned by Rsc::get / Rsc::get_by_idx is the part of
\* contents_buf that starts 4 bytes behind ioffset and has the length the
\* u32le at ioffset gives, and it ends at or before current_len: no byte at
\* or beyond current_len, left by an earlier and larger block, is returned.
C28_SliceWithinCurrentLen ==
    (rsc_res = "Ok" /\ rsc_read) =>
        /\ current_len <= Len(contents_buf)
        /\ rsc_req.ioffset + SizeOfLE32 <= current_len
        /\ rsc_req.ioffset + SizeOfLE32 + LE32Read(contents_buf, rsc_req.ioffset)
              <= current_len
        /\ rsc_out = SubSeq(contents_buf, rsc_req.ioffset + SizeOfLE32 + 1,
                            rsc_req.ioffset + SizeOfLE32
                                + LE32Read(contents_buf, rsc_req.ioffset))

\* An item of a one-item block was returned while the buffer still holds,
\* beyond current_len, the second item of a two-item block loaded before.
C28_Witness ==
    /\ rsc_res = "Ok"
    /\ rsc_read
    /\ current_len = 5
    /\ Len(contents_buf) >= 10
    /\ contents_buf[10] = 9

----------------------------------------------------------------------------
(* Properties: Keys::new, where the orderings are read from *)

\* The end of ordering j in the file: the next offset of the header that is
\* not zero, or the end of the file.
RECURSIVE EndOfOrdering(_)
EndOfOrdering(j) ==
    IF j = 4 THEN file_end
    ELSE IF HeaderOffset(j + 1) # 0 THEN HeaderOffset(j + 1)
    ELSE EndOfOrdering(j + 1)

\* The words of the file from ordering j's offset to its end.
StoredOrdering(j) ==
    SubSeq(idx_file, HeaderOffset(j) \div SizeOfLE32 + 1, EndOfOrdering(j) \div SizeOfLE32)

\* C29: Keys::new loads each ordering that is present from its own offset
\* in the index region: the loaded array is the words between that offset
\* and the next offset (or the file end), whichever other orderings are
\* absent and whether or not the first ordering starts directly behind the
\* header.
C29_OrderingsReadAtOwnOffset ==
    new_res \notin {"init", "idle"} =>
        /\ new_res = "Ok"
        /\ \A j \in 1..4 :
              HeaderOffset(j) # 0 =>
                  /\ OrderingOf(j).some
                  /\ OrderingOf(j).v = StoredOrdering(j)

----------------------------------------------------------------------------
(* Properties: Media::init that fails *)

\* C30: a call in which Media::init fails leaves the facade as it was
\* before the call, res still None and path unchanged (nothing constructed
\* is kept), and the call after it runs the initialization again, on the
\* same path.
C30_FailedInitLeavesFacade ==
    [][/\ media_init' = "Err" =>
             /\ media_res = "None"
             /\ media_res' = "None"
             /\ media_path' = media_path
             /\ media_built' = media_built
             /\ media_ret' # "Ok"
       /\ media_init = "Err" =>
             /\ media_init' \in {"Ok", "Err"}
             /\ media_path = MediaPath
             /\ media_path' = MediaPath
      ]_vars

C30_Witness ==
    /\ media_calls >= 2
    /\ media_init = "Ok"
    /\ media_built = 1
    /\ media_res \in {"Rsc", "Nrsc"}
    /\ media_path = MediaPath

====
